---- MODULE Spec2Model ----
(***************************************************************************)
(* Verification model of the race replay simulator:                        *)
(*   - the playback engine (frontend/src/hooks/useAnimation.ts),           *)
(*   - the frame interpolation law of the same hook,                       *)
(*   - the event detector (backend services lapProcessor / eventManager),  *)
(*   - the timeline generator and the timeline route of the backend.       *)
(*                                                                         *)
(* Numbers that are fractional in the program (progress, the interpolation *)
(* factor, event times) are exact rationals <<numerator, denominator>>.    *)
(***************************************************************************)
EXTENDS Integers, Sequences, FiniteSets, TLC

(* ------------------------------ bounds -------------------------------- *)
\* largest wall-clock time (ms) observed between two refresh callbacks
MaxWallDelta == 2
\* largest speed multiplier handed to setSpeed (the smallest is -1)
MaxSpeed == 2
\* the model stops rewinding the clock below -(MaxRewind * PaceConstant) ms
MaxRewind == 2
\* largest lap number of the first two frames of the interpolation inputs
MaxLap == 2

(* --------------------------- exact arithmetic ------------------------- *)
Abs(n) == IF n < 0 THEN -n ELSE n

RECURSIVE GCD(_, _)
GCD(a, b) == IF b = 0 THEN a ELSE GCD(b, a % b)

\* A rational in lowest terms with a positive denominator.
RNorm(r) ==
  LET g == GCD(Abs(r[1]), Abs(r[2]))
      s == IF r[2] < 0 THEN -1 ELSE 1
  IN  <<(s * r[1]) \div g, (s * r[2]) \div g>>

Rat(n) == <<n, 1>>
RLt(a, b) == a[1] * b[2] < b[1] * a[2]
RLe(a, b) == a[1] * b[2] <= b[1] * a[2]
RMin(a, b) == IF RLt(b, a) THEN b ELSE a
\* p + (q - p) * t
RLinear(p, q, t) ==
  RNorm(<<p[1] * q[2] * t[2] + (q[1] * p[2] - p[1] * q[2]) * t[1], p[2] * q[2] * t[2]>>)
\* p + (100 - p + q) * t
RThroughWrap(p, q, t) ==
  RNorm(<<p[1] * q[2] * t[2] + (100 * p[2] * q[2] - p[1] * q[2] + q[1] * p[2]) * t[1],
          p[2] * q[2] * t[2]>>)
\* a % m of the program, for a non-negative a and an integer m > 0
RRem(a, m) == RNorm(<<a[1] % (a[2] * m), a[2]>>)

(* ------------------------------ timelines ----------------------------- *)
NoTimeline == [loaded |-> FALSE, totalDurationMs |-> 0, frames |-> <<>>]

DriverState(id, pos, prog, lap) ==
  [driverId |-> id, position |-> pos, progress |-> Rat(prog), lap |-> lap]

\* Two loaded timelines of different length and frame interval.  Frames are
\* sampled from 0 in steps of the interval while t <= totalDurationMs.
TimelineA ==
  [loaded |-> TRUE, totalDurationMs |-> 120,
   frames |-> << [timeInMs |-> 0,
                  drivers |-> <<DriverState("A", 1, 0, 1), DriverState("B", 2, 0, 1)>>],
                 [timeInMs |-> 50,
                  drivers |-> <<DriverState("A", 1, 80, 1), DriverState("B", 2, 60, 1)>>],
                 [timeInMs |-> 100,
                  drivers |-> <<DriverState("B", 1, 20, 2), DriverState("A", 2, 10, 2)>>] >>]

TimelineB ==
  [loaded |-> TRUE, totalDurationMs |-> 40,
   frames |-> << [timeInMs |-> 0,
                  drivers |-> <<DriverState("A", 1, 0, 1), DriverState("B", 2, 0, 1)>>],
                 [timeInMs |-> 20,
                  drivers |-> <<DriverState("A", 1, 50, 1), DriverState("B", 2, 40, 1)>>],
                 [timeInMs |-> 40,
                  drivers |-> <<DriverState("A", 1, 100, 1)>>] >>]

Timelines == {NoTimeline, TimelineA, TimelineB}

\* Inputs of the interpolation law: three frames 4 ms apart.  Competitor A
\* takes every combination of progress, lap and position in the first two
\* frames (laps never decrease), competitor B may be missing from the second
\* frame, and the frames list their competitors in different orders.
InterpProgress == {0, 30, 95, 100}

InterpTimeline(p, l, pos, np, nl, npos, bNext) ==
  [loaded |-> TRUE, totalDurationMs |-> 10,
   frames |-> << [timeInMs |-> 0,
                  drivers |-> <<DriverState("A", pos, p, l), DriverState("B", 3 - pos, 40, 1)>>],
                 [timeInMs |-> 4,
                  drivers |-> IF bNext
                              THEN <<DriverState("B", 3 - npos, 70, 1), DriverState("A", npos, np, nl)>>
                              ELSE <<DriverState("A", npos, np, nl)>>],
                 [timeInMs |-> 8,
                  drivers |-> <<DriverState("A", 1, 20, MaxLap + 1),
                                DriverState("B", 2, 90, 1)>>] >>]

InterpInputs ==
  {InterpTimeline(c[1], c[2], c[3], c[4], c[5], c[6], c[7]) :
     c \in {d \in InterpProgress \X (1..MaxLap) \X (1..2) \X InterpProgress
                     \X (1..MaxLap) \X (1..2) \X BOOLEAN : d[5] >= d[2]}}

InterpClock == 0..10

(* --------------------------- playback inputs -------------------------- *)
PaceConstant == 20
Speeds == (-1)..MaxSpeed
SeekTargets == {-100, 40, 60, 300}
SeekPercents == {-50, 50, 150}

PlaybackDefault ==
  [isPlaying |-> FALSE, currentTimeMs |-> 0, speed |-> 1, currentFrameIndex |-> 0]

VARIABLES
  timeline,             \* the timeline argument of the last render
  playbackState,        \* the PlaybackState after every queued update
  rendered,             \* the PlaybackState the last render saw (closures)
  interpolatedDrivers,  \* the interpolated competitor list
  animationFrameRef,    \* "null" or "id"
  rafCallback,          \* the refresh callback waiting in the browser
  lastTimestampRef,     \* <<>> (null) or <<wall ms since that timestamp>>
  sinceStep,            \* history: <<>> when no step has run since the last
                        \* play(), else <<wall ms since the previous step>>
  lastOp,               \* the operation that produced this state
  raceData,             \* the race data the timeline route fetched
  query,                \* the query of the timeline request
  events,               \* <<>> or <<the event log the route built from it>>
  raceTimeline,         \* <<>> or <<the timeline the route answered with>>
  compressed,           \* <<>> or <<the target and the result of the last compression>>
  frameLoop,            \* <<>> or <<the locals of the running frame loop>>
  props,                \* the season and round useRaceTimeline was rendered with
  hookState,            \* its timeline, isLoading and error states
  inFlight              \* the requests of fetchTimeline that await their answer

playVars == <<timeline, playbackState, rendered, interpolatedDrivers,
              animationFrameRef, rafCallback, lastTimestampRef, sinceStep, lastOp>>
eventVars == <<raceData, query, events, raceTimeline, compressed, frameLoop>>
fetchVars == <<props, hookState, inFlight>>

(* -------------------------- pure hook helpers ------------------------- *)
MaxOf(a, b) == IF a > b THEN a ELSE b
MinOf(a, b) == IF a < b THEN a ELSE b
SetMin(S) == CHOOSE x \in S : \A y \in S : x <= y

\* frames[i] of the program (0-based)
FrameAt(tl, i) == tl.frames[i + 1]

getFrame(tl, index) ==
  IF ~tl.loaded \/ index < 0 \/ index >= Len(tl.frames)
  THEN <<>>
  ELSE <<FrameAt(tl, index)>>

\* Mutation: a frame whose time equals the clock counts as later.
findFrameIndexOffByOne(tl, timeMs) ==
  IF ~tl.loaded \/ Len(tl.frames) = 0 THEN 0
  ELSE LET later == {i \in 0..(Len(tl.frames) - 1) : FrameAt(tl, i).timeInMs >= timeMs}
       IN  IF later # {} THEN MaxOf(0, SetMin(later) - 1)
           ELSE Len(tl.frames) - 1

findFrameIndex(tl, timeMs) ==
  IF ~tl.loaded \/ Len(tl.frames) = 0 THEN 0
  ELSE LET later == {i \in 0..(Len(tl.frames) - 1) : FrameAt(tl, i).timeInMs > timeMs}
       IN  IF later # {} THEN MaxOf(0, SetMin(later) - 1)
           ELSE Len(tl.frames) - 1

FindDriver(drivers, id) ==
  LET hits == {i \in 1..Len(drivers) : drivers[i].driverId = id}
  IN  IF hits = {} THEN <<>> ELSE <<drivers[SetMin(hits)]>>

\* Mutation: the wrapped progress is not reduced modulo 100.
wrapProgressNoModulo(driver, nextDriver, t) ==
  RThroughWrap(driver.progress, nextDriver.progress, t)

wrapProgress(driver, nextDriver, t) ==
  IF RLt(Rat(100), RThroughWrap(driver.progress, nextDriver.progress, t))
  THEN RRem(RThroughWrap(driver.progress, nextDriver.progress, t), 100)
  ELSE RThroughWrap(driver.progress, nextDriver.progress, t)

interpolateProgress(driver, nextDriver, t) ==
  IF nextDriver.lap > driver.lap /\ RLt(nextDriver.progress, driver.progress)
  THEN wrapProgress(driver, nextDriver, t)
  ELSE RLinear(driver.progress, nextDriver.progress, t)

\* Mutation: lap and position switch at t >= 0.5 instead of t > 0.5.
interpolateDriverEarlySwitch(driver, nextDrivers, t) ==
  LET found == FindDriver(nextDrivers, driver.driverId)
  IN  IF found = <<>> THEN driver
      ELSE LET nextDriver == found[1]
           IN  [driver EXCEPT
                  !.progress = interpolateProgress(driver, nextDriver, t),
                  !.lap = IF RLe(<<1, 2>>, t) THEN nextDriver.lap ELSE driver.lap,
                  !.position = IF RLe(<<1, 2>>, t) THEN nextDriver.position
                               ELSE driver.position]

interpolateDriver(driver, nextDrivers, t) ==
  LET found == FindDriver(nextDrivers, driver.driverId)
  IN  IF found = <<>> THEN driver
      ELSE LET nextDriver == found[1]
           IN  [driver EXCEPT
                  !.progress = interpolateProgress(driver, nextDriver, t),
                  !.lap = IF RLt(<<1, 2>>, t) THEN nextDriver.lap ELSE driver.lap,
                  !.position = IF RLt(<<1, 2>>, t) THEN nextDriver.position
                               ELSE driver.position]

interpolationFactor(currentFrame, nextFrame, timeMs) ==
  LET frameDuration == nextFrame.timeInMs - currentFrame.timeInMs
      elapsed == timeMs - currentFrame.timeInMs
  IN  IF frameDuration > 0 THEN RMin(Rat(1), RNorm(<<elapsed, frameDuration>>))
      ELSE Rat(0)

interpolateDrivers(tl, timeMs) ==
  IF ~tl.loaded \/ Len(tl.frames) = 0 THEN <<>>
  ELSE LET frameIndex == findFrameIndex(tl, timeMs)
           currentFrame == FrameAt(tl, frameIndex)
       IN  IF frameIndex + 1 >= Len(tl.frames) THEN currentFrame.drivers
           ELSE LET nextFrame == FrameAt(tl, frameIndex + 1)
                    t == interpolationFactor(currentFrame, nextFrame, timeMs)
                IN  [i \in 1..Len(currentFrame.drivers) |->
                       interpolateDriver(currentFrame.drivers[i], nextFrame.drivers, t)]

\* The clock values the bounded model can hold, and interpolateDrivers
\* evaluated once for each of them.
ClockValues ==
  (-(MaxRewind * PaceConstant))..(CHOOSE d \in {tl.totalDurationMs : tl \in Timelines} :
                                    \A tl \in Timelines : tl.totalDurationMs <= d)

interpolatedAt ==
  [tl \in Timelines \cup InterpInputs |->
     [timeMs \in ClockValues |-> interpolateDrivers(tl, timeMs)]]

(* ------------------------------- Init --------------------------------- *)
\* No request for a race timeline has been served.
NoRaceData == [laps |-> <<>>, pitStops |-> <<>>, results |-> <<>>]

\* useRaceTimeline is rendered without a season and a round: nothing is fetched.
FetchIdle ==
  /\ props = [season |-> "", round |-> ""]
  /\ hookState = [timeline |-> <<>>, isLoading |-> FALSE, error |-> <<>>]
  /\ inFlight = <<>>

EventsIdle ==
  /\ raceData = NoRaceData
  /\ query = [frameInterval |-> <<>>]
  /\ events = <<>>
  /\ raceTimeline = <<>>
  /\ compressed = <<>>
  /\ frameLoop = <<>>

PlayInit ==
  /\ timeline = NoTimeline
  /\ playbackState = PlaybackDefault
  /\ rendered = PlaybackDefault
  /\ interpolatedDrivers = <<>>
  /\ animationFrameRef = "null"
  /\ rafCallback = <<>>
  /\ lastTimestampRef = <<>>
  /\ sinceStep = <<>>
  /\ lastOp = "mount"

(* ------------------------- render and effects ------------------------- *)
\* One render of the hook with timeline argument tl, followed by its effects
\* in declaration order: interpolation, start/stop of the loop, reset.
Commit(tl) ==
  LET st == playbackState
      timelineChanged == tl # timeline
      loopDepsChanged == st.isPlaying # rendered.isPlaying \/ timelineChanged
  IN  /\ timeline' = tl
      /\ rendered' = st
      /\ interpolatedDrivers' = interpolatedAt[tl][st.currentTimeMs]
      /\ IF loopDepsChanged
         THEN IF st.isPlaying /\ tl.loaded
              THEN /\ lastTimestampRef' = <<>>
                   /\ animationFrameRef' = "id"
                   /\ rafCallback' = <<[isPlaying |-> st.isPlaying, timeline |-> tl]>>
              ELSE /\ animationFrameRef' = "null"
                   /\ rafCallback' = IF animationFrameRef = "id" THEN <<>> ELSE rafCallback
                   /\ UNCHANGED lastTimestampRef
         ELSE UNCHANGED <<animationFrameRef, rafCallback, lastTimestampRef>>
      /\ playbackState' = IF timelineChanged /\ tl.loaded THEN PlaybackDefault ELSE st
      /\ UNCHANGED sinceStep
      /\ UNCHANGED <<eventVars, fetchVars>>

Render ==
  /\ rendered # playbackState
  /\ Commit(timeline)
  /\ lastOp' = "render"

setTimeline(tl) ==
  /\ tl # timeline
  /\ Commit(tl)
  /\ lastOp' = "setTimeline"

(* ----------------------------- operations ----------------------------- *)
Queue(newState, op) ==
  /\ playbackState' = newState
  /\ lastOp' = op
  /\ sinceStep' = IF newState.isPlaying /\ ~playbackState.isPlaying THEN <<>> ELSE sinceStep
  /\ UNCHANGED <<timeline, rendered, interpolatedDrivers, animationFrameRef,
                 rafCallback, lastTimestampRef>>
  /\ UNCHANGED <<eventVars, fetchVars>>

play == Queue([playbackState EXCEPT !.isPlaying = TRUE], "play")

pause == Queue([playbackState EXCEPT !.isPlaying = FALSE], "pause")

restartState(speed) ==
  [isPlaying |-> FALSE, currentTimeMs |-> 0, speed |-> speed, currentFrameIndex |-> 0]

restart == Queue(restartState(rendered.speed), "restart")

setSpeed(speed) == Queue([playbackState EXCEPT !.speed = speed], "setSpeed")

\* Mutation: the lower clamp at 0 is missing.
clampTimeNoFloor(tl, timeMs) == MinOf(timeMs, tl.totalDurationMs)

clampTime(tl, timeMs) == MaxOf(0, MinOf(timeMs, tl.totalDurationMs))

seekState(tl, prev, timeMs) ==
  LET clampedTime == clampTime(tl, timeMs)
  IN  [prev EXCEPT !.currentTimeMs = clampedTime,
                   !.currentFrameIndex = findFrameIndex(tl, clampedTime)]

seekTo(timeMs) ==
  /\ timeline.loaded
  /\ Queue(seekState(timeline, playbackState, timeMs), "seekTo")

\* (percent / 100) * totalDurationMs; exact for the durations modelled here
percentToMs(tl, percent) == (percent * tl.totalDurationMs) \div 100

seekToPercent(percent) ==
  /\ timeline.loaded
  /\ Queue(seekState(timeline, playbackState, percentToMs(timeline, percent)),
           "seekToPercent")

(* --------------------------- animation loop --------------------------- *)
advanceClock(prev, deltaMs) == prev.currentTimeMs + deltaMs * prev.speed * PaceConstant

\* Mutation: reaching the end clamps the clock but keeps playing.
animateStateNoStop(tl, prev, deltaMs) ==
  LET newTimeMs == advanceClock(prev, deltaMs)
  IN  IF newTimeMs >= tl.totalDurationMs
      THEN [prev EXCEPT !.currentTimeMs = tl.totalDurationMs,
                        !.currentFrameIndex = Len(tl.frames) - 1]
      ELSE [prev EXCEPT !.currentTimeMs = newTimeMs,
                        !.currentFrameIndex = findFrameIndex(tl, newTimeMs)]

animateState(tl, prev, deltaMs) ==
  LET newTimeMs == advanceClock(prev, deltaMs)
  IN  IF newTimeMs >= tl.totalDurationMs
      THEN [prev EXCEPT !.isPlaying = FALSE,
                        !.currentTimeMs = tl.totalDurationMs,
                        !.currentFrameIndex = Len(tl.frames) - 1]
      ELSE [prev EXCEPT !.currentTimeMs = newTimeMs,
                        !.currentFrameIndex = findFrameIndex(tl, newTimeMs)]

TickDelta == IF lastTimestampRef = <<>> THEN 0 ELSE lastTimestampRef[1]

\* The browser runs the waiting refresh callback.
animate ==
  /\ rafCallback # <<>>
  /\ lastOp' = "animate"
  /\ UNCHANGED <<eventVars, fetchVars>>
  /\ LET cb == rafCallback[1]
     IN  IF ~cb.timeline.loaded
         THEN /\ rafCallback' = <<>>
              /\ UNCHANGED <<timeline, playbackState, rendered, interpolatedDrivers,
                             animationFrameRef, lastTimestampRef, sinceStep>>
         ELSE /\ advanceClock(playbackState, TickDelta) >= -(MaxRewind * PaceConstant)
              /\ lastTimestampRef' = <<0>>
              /\ sinceStep' = <<0>>
              /\ playbackState' = animateState(cb.timeline, playbackState, TickDelta)
              /\ IF cb.isPlaying
                 THEN /\ rafCallback' = <<cb>>
                      /\ animationFrameRef' = "id"
                 ELSE /\ rafCallback' = <<>>
                      /\ UNCHANGED animationFrameRef
              /\ UNCHANGED <<timeline, rendered, interpolatedDrivers>>

\* Wall-clock time passes between two refresh callbacks.
wallClockPasses ==
  /\ lastTimestampRef # <<>>
  /\ lastTimestampRef[1] < MaxWallDelta
  /\ lastTimestampRef' = <<lastTimestampRef[1] + 1>>
  /\ sinceStep' = IF sinceStep = <<>> THEN <<>> ELSE <<sinceStep[1] + 1>>
  /\ UNCHANGED <<timeline, playbackState, rendered, interpolatedDrivers,
                 animationFrameRef, rafCallback, lastOp>>
  /\ UNCHANGED <<eventVars, fetchVars>>

PlayNext ==
  \/ play
  \/ pause
  \/ restart
  \/ \E speed \in Speeds : setSpeed(speed)
  \/ \E timeMs \in SeekTargets : seekTo(timeMs)
  \/ \E percent \in SeekPercents : seekToPercent(percent)
  \/ animate
  \/ wallClockPasses
  \/ Render
  \/ \E tl \in Timelines : setTimeline(tl)

vars == <<playVars, eventVars, fetchVars>>
Init == PlayInit /\ EventsIdle /\ FetchIdle
Next == PlayNext
Spec == Init /\ [][Next]_vars

(* ------------------- interpolation on any timeline -------------------- *)
\* The hook after it was given one of the interpolation inputs and has reset:
\* seeks move the clock, renders recompute the interpolated competitor list.
InterpInit ==
  /\ timeline \in InterpInputs
  /\ playbackState = PlaybackDefault
  /\ rendered = PlaybackDefault
  /\ interpolatedDrivers = interpolatedAt[timeline][0]
  /\ animationFrameRef = "null"
  /\ rafCallback = <<>>
  /\ lastTimestampRef = <<>>
  /\ sinceStep = <<>>
  /\ lastOp = "setTimeline"
  /\ EventsIdle
  /\ FetchIdle

InterpNext ==
  \/ \E timeMs \in InterpClock : seekTo(timeMs)
  \/ Render

SpecInterp == InterpInit /\ [][InterpNext]_vars

(* ------------------ playback with fair scheduling --------------------- *)
\* Uninterrupted playback at positive speed: no pause, seek or restart, the
\* timeline is loaded once.  The browser keeps delivering refresh callbacks,
\* React keeps rendering queued updates and wall-clock time keeps passing.
loadTimeline(tl) ==
  /\ ~timeline.loaded
  /\ tl.loaded
  /\ setTimeline(tl)

LiveNext ==
  \/ play
  \/ \E speed \in 1..MaxSpeed : setSpeed(speed)
  \/ animate
  \/ wallClockPasses
  \/ Render
  \/ \E tl \in Timelines : loadTimeline(tl)

LiveSpec ==
  /\ Init
  /\ [][LiveNext]_vars
  /\ WF_vars(animate)
  /\ WF_vars(Render)
  /\ WF_vars(wallClockPasses)

(* ============================ event detector ========================== *)
(* Numbers of the backend are exact rationals <<n, d>> in lowest terms;     *)
(* NaN is <<0, 0>>.  Arithmetic is exact where the program rounds to the    *)
(* nearest double.  Texts are sequences of one-character strings.           *)

\* largest number of laps of a race with well-formed lap times
MaxRaceLaps == 2

NaN == <<0, 0>>
IsNaN(x) == x[2] = 0
Zero == Rat(0)

NAdd(a, b) ==
  IF IsNaN(a) \/ IsNaN(b) THEN NaN
  ELSE RNorm(<<a[1] * b[2] + b[1] * a[2], a[2] * b[2]>>)
NSub(a, b) ==
  IF IsNaN(a) \/ IsNaN(b) THEN NaN
  ELSE RNorm(<<a[1] * b[2] - b[1] * a[2], a[2] * b[2]>>)
NMul(a, b) ==
  IF IsNaN(a) \/ IsNaN(b) THEN NaN
  ELSE RNorm(<<a[1] * b[1], a[2] * b[2]>>)
\* a / b for a divisor that is neither zero nor NaN
NDiv(a, b) ==
  IF IsNaN(a) THEN NaN ELSE RNorm(<<a[1] * b[2], a[2] * b[1]>>)
\* a < b, a <= b and a === b of the program: false when either side is NaN
NLt(a, b) == ~IsNaN(a) /\ ~IsNaN(b) /\ RLt(a, b)
NLe(a, b) == ~IsNaN(a) /\ ~IsNaN(b) /\ RLe(a, b)
NEq(a, b) == ~IsNaN(a) /\ ~IsNaN(b) /\ a = b
\* x || 0
OrZero(x) == IF IsNaN(x) \/ x[1] = 0 THEN Zero ELSE x

(* -------------------------------- texts ------------------------------- *)
Digits == <<"0", "1", "2", "3", "4", "5", "6", "7", "8", "9">>
UpperCase == <<"A", "B", "C", "D", "E", "F", "G", "H", "I", "J", "K", "L", "M",
               "N", "O", "P", "Q", "R", "S", "T", "U", "V", "W", "X", "Y", "Z">>
LowerCase == <<"a", "b", "c", "d", "e", "f", "g", "h", "i", "j", "k", "l", "m",
               "n", "o", "p", "q", "r", "s", "t", "u", "v", "w", "x", "y", "z">>

IsDigit(c) == \E i \in DOMAIN Digits : Digits[i] = c
DigitValue(c) == (CHOOSE i \in DOMAIN Digits : Digits[i] = c) - 1
\* the decimal text of a number below ten
DigitText(n) == <<Digits[n + 1]>>

RECURSIVE Pow10(_)
Pow10(k) == IF k = 0 THEN 1 ELSE 10 * Pow10(k - 1)

\* the number of leading decimal digits of a text
DigitPrefixLen(text) ==
  CHOOSE n \in 0..Len(text) :
    /\ \A i \in 1..n : IsDigit(text[i])
    /\ n = Len(text) \/ ~IsDigit(text[n + 1])

RECURSIVE DigitsValue(_, _)
DigitsValue(text, n) ==
  IF n = 0 THEN 0 ELSE 10 * DigitsValue(text, n - 1) + DigitValue(text[n])

HasSign(text) == Len(text) > 0 /\ text[1] \in {"+", "-"}
SignOf(text) == IF Len(text) > 0 /\ text[1] = "-" THEN -1 ELSE 1
Unsigned(text) == IF HasSign(text) THEN Tail(text) ELSE text

\* parseInt(text, 10) for a text without leading blanks
parseInt(text) ==
  LET body == Unsigned(text)
      n == DigitPrefixLen(body)
  IN  IF n = 0 THEN NaN ELSE Rat(SignOf(text) * DigitsValue(body, n))

\* parseFloat(text) for a text without leading blanks, exponent or "Infinity"
parseFloat(text) ==
  LET body == Unsigned(text)
      n == DigitPrefixLen(body)
      rest == SubSeq(body, n + 1, Len(body))
      fraction == IF Len(rest) > 0 /\ rest[1] = "." THEN Tail(rest) ELSE <<>>
      m == DigitPrefixLen(fraction)
  IN  IF n = 0 /\ m = 0 THEN NaN
      ELSE RNorm(<<SignOf(text) * (DigitsValue(body, n) * Pow10(m) + DigitsValue(fraction, m)),
                   Pow10(m)>>)

RECURSIVE split(_, _)
split(text, separator) ==
  IF \E i \in 1..Len(text) : text[i] = separator
  THEN LET i == CHOOSE j \in 1..Len(text) :
                  /\ text[j] = separator
                  /\ \A k \in 1..(j - 1) : text[k] # separator
       IN  <<SubSeq(text, 1, i - 1)>> \o split(SubSeq(text, i + 1, Len(text)), separator)
  ELSE <<text>>

toLowerCase(text) ==
  [i \in 1..Len(text) |->
     IF \E k \in DOMAIN UpperCase : UpperCase[k] = text[i]
     THEN LowerCase[CHOOSE k \in DOMAIN UpperCase : UpperCase[k] = text[i]]
     ELSE text[i]]

includes(text, c) == \E i \in 1..Len(text) : text[i] = c

(* ---------------------------- lapProcessor ---------------------------- *)
lapTimeToMs(timeStr) ==
  IF timeStr = <<>> THEN Zero
  ELSE LET parts == split(timeStr, ":")
       IN  IF Len(parts) = 2
           THEN LET minutes == parseInt(parts[1])
                    seconds == parseFloat(parts[2])
                IN  NMul(NAdd(NMul(minutes, Rat(60)), seconds), Rat(1000))
           ELSE NMul(parseFloat(timeStr), Rat(1000))

processLapData(jolpicaLaps) ==
  [k \in 1..Len(jolpicaLaps) |->
     [lap |-> parseInt(jolpicaLaps[k].number),
      timings |->
        [i \in 1..Len(jolpicaLaps[k].Timings) |->
           [driverId |-> jolpicaLaps[k].Timings[i].driverId,
            lap |-> parseInt(jolpicaLaps[k].number),
            position |-> parseInt(jolpicaLaps[k].Timings[i].position),
            time |-> jolpicaLaps[k].Timings[i].time,
            timeInMs |-> lapTimeToMs(jolpicaLaps[k].Timings[i].time)]]]]

processPitStops(jolpicaPitStops) ==
  [k \in 1..Len(jolpicaPitStops) |->
     [driverId |-> jolpicaPitStops[k].driverId,
      lap |-> parseInt(jolpicaPitStops[k].lap),
      stop |-> parseInt(jolpicaPitStops[k].stop),
      duration |-> jolpicaPitStops[k].duration,
      durationInMs |-> NMul(parseFloat(jolpicaPitStops[k].duration), Rat(1000))]]

\* every timing of every lap, in the order the forEach loops visit them
RECURSIVE allTimings(_)
allTimings(lapTimings) ==
  IF lapTimings = <<>> THEN <<>>
  ELSE Head(lapTimings).timings \o allTimings(Tail(lapTimings))

RECURSIVE SumOf(_)
SumOf(numbers) ==
  IF numbers = <<>> THEN Zero ELSE NAdd(Head(numbers), SumOf(Tail(numbers)))

IsPositiveTiming(timing) == NLt(Zero, timing.timeInMs)

DefaultLapTime == 90000

averageLapTime(lapTimings) ==
  LET counted == SelectSeq(allTimings(lapTimings), IsPositiveTiming)
  IN  IF Len(counted) > 0
      THEN NDiv(SumOf([i \in 1..Len(counted) |-> counted[i].timeInMs]), Rat(Len(counted)))
      ELSE Rat(DefaultLapTime)

\* Math.max(0.5, Math.min(1.5, average / timeInMs)) for a positive average
clampSpeedFactor(average, timeInMs) ==
  IF IsNaN(timeInMs) THEN NaN
  ELSE IF timeInMs = Zero THEN <<3, 2>>
  ELSE LET speedFactor == NDiv(average, timeInMs)
       IN  IF RLt(<<3, 2>>, speedFactor) THEN <<3, 2>>
           ELSE IF RLt(speedFactor, <<1, 2>>) THEN <<1, 2>>
           ELSE speedFactor

\* the timings of one driver, one per lap that lists the driver (the first)
driverTimings(lapTimings, driverId) ==
  LET Lists(k) == \E i \in 1..Len(lapTimings[k].timings) :
                    lapTimings[k].timings[i].driverId = driverId
      First(k) == CHOOSE i \in 1..Len(lapTimings[k].timings) :
                    /\ lapTimings[k].timings[i].driverId = driverId
                    /\ \A j \in 1..(i - 1) : lapTimings[k].timings[j].driverId # driverId
      RECURSIVE Collect(_)
      Collect(k) ==
        IF k > Len(lapTimings) THEN <<>>
        ELSE (IF Lists(k) THEN <<lapTimings[k].timings[First(k)]>> ELSE <<>>)
             \o Collect(k + 1)
  IN  Collect(1)

calculateDriverLapData(lapTimings, driverIds) ==
  LET average == averageLapTime(lapTimings)
      Laps(driverId) ==
        LET own == driverTimings(lapTimings, driverId)
        IN  [n \in 1..Len(own) |->
               [lap |-> own[n].lap,
                position |-> own[n].position,
                timeInMs |-> own[n].timeInMs,
                cumulativeTimeInMs |-> SumOf([i \in 1..n |-> own[i].timeInMs]),
                progressPerLap |-> 100,
                speedFactor |-> clampSpeedFactor(average, own[n].timeInMs)]]
  IN  [d \in 1..Len(driverIds) |->
         [driverId |-> driverIds[d], laps |-> Laps(driverIds[d])]]

IsDNFStatus(result) ==
  LET status == toLowerCase(result.status)
  IN  status # <<"f", "i", "n", "i", "s", "h", "e", "d">> /\ ~includes(status, "+")

\* The Map of retirements as the sequence of its entries in insertion order;
\* a driver listed twice keeps the first position and the last value.
identifyDNFs(results) ==
  LET retired == SelectSeq(results, IsDNFStatus)
      IsFirst(i) == \A j \in 1..(i - 1) : retired[j].driverId # retired[i].driverId
      LastOf(i) == CHOOSE j \in 1..Len(retired) :
                     /\ retired[j].driverId = retired[i].driverId
                     /\ \A k \in (j + 1)..Len(retired) : retired[k].driverId # retired[i].driverId
      RECURSIVE Entries(_)
      Entries(i) ==
        IF i > Len(retired) THEN <<>>
        ELSE (IF IsFirst(i)
              THEN <<[driverId |-> retired[i].driverId,
                      lap |-> parseInt(retired[LastOf(i)].laps),
                      reason |-> retired[LastOf(i)].status]>>
              ELSE <<>>) \o Entries(i + 1)
  IN  Entries(1)

HasRankOne(result) == result.FastestLap # <<>> /\ result.FastestLap[1].rank = "1"

\* <<>> (null) or <<the fastest lap>>
findFastestLap(results) ==
  LET ranked == SelectSeq(results, HasRankOne)
  IN  IF ranked = <<>> THEN <<>>
      ELSE <<[driverId |-> ranked[1].driverId,
              lap |-> parseInt(ranked[1].FastestLap[1].lap),
              time |-> ranked[1].FastestLap[1].time,
              timeInMs |-> lapTimeToMs(ranked[1].FastestLap[1].time)]>>

(* ---------------------------- eventManager ---------------------------- *)
\* the sign of a.timeInMs - b.timeInMs as Array.prototype.sort reads it:
\* a NaN difference counts as +0
compareByTime(a, b) ==
  LET difference == NSub(a.timeInMs, b.timeInMs)
  IN  IF IsNaN(difference) \/ difference[1] = 0 THEN 0
      ELSE IF difference[1] < 0 THEN -1 ELSE 1

RECURSIVE insertionPoint(_, _, _)
insertionPoint(sorted, event, i) ==
  IF i = 0 \/ compareByTime(sorted[i], event) <= 0 THEN i
  ELSE insertionPoint(sorted, event, i - 1)

\* The stable sort by time (Array.prototype.sort is stable).
RECURSIVE sortByTime(_)
sortByTime(list) ==
  IF list = <<>> THEN <<>>
  ELSE LET sorted == sortByTime(SubSeq(list, 1, Len(list) - 1))
           event == list[Len(list)]
           k == insertionPoint(sorted, event, Len(sorted))
       IN  SubSeq(sorted, 1, k) \o <<event>> \o SubSeq(sorted, k + 1, Len(sorted))

\* The comparator is a consistent ordering of the list unless a NaN time
\* stands next to two different times.
IsConsistentOrder(list) ==
  \/ \A i \in 1..Len(list) : ~IsNaN(list[i].timeInMs)
  \/ \A i, j \in 1..Len(list) :
       IsNaN(list[i].timeInMs) \/ IsNaN(list[j].timeInMs)
         \/ list[i].timeInMs = list[j].timeInMs

\* Every result Array.prototype.sort may give: the stable sort under a
\* consistent comparator, otherwise an implementation-defined order.
sortOutcomes(list) ==
  IF IsConsistentOrder(list) THEN {sortByTime(list)}
  ELSE {[i \in 1..Len(list) |-> list[p[i]]] : p \in Permutations(1..Len(list))}

\* index of the last timing of the same driver before timing k, 0 if none
previousTiming(timings, k) ==
  IF \E j \in 1..(k - 1) : timings[j].driverId = timings[k].driverId
  THEN CHOOSE j \in 1..(k - 1) :
         /\ timings[j].driverId = timings[k].driverId
         /\ \A i \in (j + 1)..(k - 1) : timings[i].driverId # timings[k].driverId
  ELSE 0

\* cumulativeTimes.get(driverId) after timing k of createLapCompleteEvents
RECURSIVE lapCompleteTime(_, _)
lapCompleteTime(timings, k) ==
  LET j == previousTiming(timings, k)
      prevTime == IF j = 0 THEN Zero ELSE OrZero(lapCompleteTime(timings, j))
  IN  NAdd(prevTime, timings[k].timeInMs)

createLapCompleteEvents(lapTimings) ==
  LET timings == allTimings(lapTimings)
  IN  sortByTime([k \in 1..Len(timings) |->
                    [type |-> "lap_complete",
                     lap |-> timings[k].lap,
                     timeInMs |-> lapCompleteTime(timings, k),
                     driverId |-> timings[k].driverId,
                     data |-> [position |-> timings[k].position,
                               lapTime |-> timings[k].timeInMs]]])

\* Array.prototype.find over the outcomes of its test: the index of the first
\* TRUE, 0 if there is none
FirstIndex(tests) ==
  IF \E i \in 1..Len(tests) : tests[i]
  THEN CHOOSE i \in 1..Len(tests) : tests[i] /\ \A j \in 1..(i - 1) : ~tests[j]
  ELSE 0

createPitStopEvents(pitStops, processedLapData) ==
  LET Event(pitStop) ==
        LET OfDriver(d) == d.driverId = pitStop.driverId
            OfLap(l) == NEq(l.lap, pitStop.lap)
            d == FirstIndex([i \in 1..Len(processedLapData) |-> OfDriver(processedLapData[i])])
            l == IF d = 0 THEN 0
                 ELSE FirstIndex([i \in 1..Len(processedLapData[d].laps) |->
                                    OfLap(processedLapData[d].laps[i])])
        IN  IF l = 0 THEN <<>>
            ELSE LET lapData == processedLapData[d].laps[l]
                 IN  <<[type |-> "pitstop",
                        lap |-> pitStop.lap,
                        timeInMs |-> NSub(lapData.cumulativeTimeInMs,
                                          NMul(lapData.timeInMs, <<1, 10>>)),
                        driverId |-> pitStop.driverId,
                        data |-> [pitDuration |-> pitStop.durationInMs]]>>
      RECURSIVE Collect(_)
      Collect(k) ==
        IF k > Len(pitStops) THEN <<>> ELSE Event(pitStops[k]) \o Collect(k + 1)
  IN  sortByTime(Collect(1))

\* cumulativeTimes.get(driverId) after timing k of detectOvertakes; the first
\* lap (firstLap timings) stores the lap time itself
RECURSIVE overtakeTime(_, _, _)
overtakeTime(timings, firstLap, k) ==
  IF k <= firstLap THEN timings[k].timeInMs
  ELSE LET j == previousTiming(timings, k)
           prevTime == IF j = 0 THEN Zero ELSE OrZero(overtakeTime(timings, firstLap, j))
       IN  NAdd(prevTime, timings[k].timeInMs)

\* previousPositions before timing k is processed: the keys in insertion order
positionKeys(timings, k) ==
  LET IsFirst(i) == \A j \in 1..(i - 1) : timings[j].driverId # timings[i].driverId
      RECURSIVE Keys(_)
      Keys(i) ==
        IF i >= k THEN <<>>
        ELSE (IF IsFirst(i) THEN <<timings[i].driverId>> ELSE <<>>) \o Keys(i + 1)
  IN  Keys(1)

\* previousPositions.get(driverId) before timing k is processed
positionBefore(timings, k, driverId) ==
  timings[CHOOSE j \in 1..(k - 1) :
            /\ timings[j].driverId = driverId
            /\ \A i \in (j + 1)..(k - 1) : timings[i].driverId # driverId].position

detectOvertakes(lapTimings) ==
  LET timings == allTimings(lapTimings)
      firstLap == IF lapTimings = <<>> THEN 0 ELSE Len(lapTimings[1].timings)
      Event(k) ==
        LET timing == timings[k]
            j == previousTiming(timings, k)
        IN  IF j # 0 /\ NLt(timing.position, timings[j].position)
            THEN LET keys == positionKeys(timings, k)
                     Holds(id) == NEq(positionBefore(timings, k, id), timing.position)
                     overtaken == FirstIndex([i \in 1..Len(keys) |-> Holds(keys[i])])
                 IN  <<[type |-> "overtake",
                        lap |-> timing.lap,
                        timeInMs |-> NSub(overtakeTime(timings, firstLap, k),
                                          NMul(timing.timeInMs, <<1, 2>>)),
                        driverId |-> timing.driverId,
                        data |-> [position |-> timing.position,
                                  previousPosition |-> timings[j].position,
                                  overtakenDriverId |->
                                    IF overtaken = 0 THEN <<>> ELSE <<keys[overtaken]>>]]>>
            ELSE <<>>
      RECURSIVE Collect(_)
      Collect(k) ==
        IF k > Len(timings) THEN <<>>
        ELSE (IF k <= firstLap THEN <<>> ELSE Event(k)) \o Collect(k + 1)
  IN  sortByTime(Collect(1))

createDNFEvents(dnfs, processedLapData) ==
  LET Event(dnfInfo) ==
        LET OfDriver(d) == d.driverId = dnfInfo.driverId
            d == FirstIndex([i \in 1..Len(processedLapData) |-> OfDriver(processedLapData[i])])
        IN  IF d # 0 /\ Len(processedLapData[d].laps) > 0
            THEN LET laps == processedLapData[d].laps
                 IN  <<[type |-> "dnf",
                        lap |-> dnfInfo.lap,
                        timeInMs |-> laps[Len(laps)].cumulativeTimeInMs,
                        driverId |-> dnfInfo.driverId,
                        data |-> [dnfReason |-> dnfInfo.reason]]>>
            ELSE <<>>
      RECURSIVE Collect(_)
      Collect(k) ==
        IF k > Len(dnfs) THEN <<>> ELSE Event(dnfs[k]) \o Collect(k + 1)
  IN  sortByTime(Collect(1))

\* <<>> (null) or <<the event>>
createFastestLapEvent(fastestLap, processedLapData) ==
  IF fastestLap = <<>> THEN <<>>
  ELSE LET OfDriver(d) == d.driverId = fastestLap[1].driverId
           OfLap(l) == NEq(l.lap, fastestLap[1].lap)
           d == FirstIndex([i \in 1..Len(processedLapData) |-> OfDriver(processedLapData[i])])
           l == IF d = 0 THEN 0
                 ELSE FirstIndex([i \in 1..Len(processedLapData[d].laps) |->
                                    OfLap(processedLapData[d].laps[i])])
       IN  IF l = 0 THEN <<>>
           ELSE <<[type |-> "fastest_lap",
                   lap |-> fastestLap[1].lap,
                   timeInMs |-> processedLapData[d].laps[l].cumulativeTimeInMs,
                   driverId |-> fastestLap[1].driverId,
                   data |-> [lapTime |-> fastestLap[1].timeInMs]]>>

\* The list buildEventTimeline hands to its final sort.  The lists of the
\* four creators are sorted already; whenever one of those sorts is not
\* determined, a time is NaN and the final sort is not determined either.
allEvents(lapTimings, pitStops, processedLapData, dnfs, fastestLap) ==
  createLapCompleteEvents(lapTimings)
    \o createPitStopEvents(pitStops, processedLapData)
    \o detectOvertakes(lapTimings)
    \o createDNFEvents(dnfs, processedLapData)
    \o createFastestLapEvent(fastestLap, processedLapData)

\* every event log buildEventTimeline may return
buildEventTimeline(lapTimings, pitStops, processedLapData, dnfs, fastestLap) ==
  sortOutcomes(allEvents(lapTimings, pitStops, processedLapData, dnfs, fastestLap))

(* ------------------------------ race data ----------------------------- *)
TextMinute20 == <<"1", ":", "2", "0", ".", "0", "0", "0">>
TextMinute12 == <<"1", ":", "1", "2", ".", "0", "0", "0">>
TextSeconds == <<"8", "0", ".", "5">>
TextEmpty == <<>>
TextWords == <<"b", "a", "d">>
TextNoSeconds == <<"1", ":", "x", "x">>
TextStop == <<"2", ".", "5">>
TextZero == <<"0", ":", "0", "0", ".", "0", "0", "0">>
TextHours == <<"1", ":", "0", "2", ":", "0", "3", ".", "0", "0", "0">>

StatusFinished == <<"F", "i", "n", "i", "s", "h", "e", "d">>
StatusLapped == <<"+", "1", " ", "L", "a", "p">>
StatusEngine == <<"E", "n", "g", "i", "n", "e">>

WellFormedTexts == {TextMinute20, TextMinute12, TextSeconds}
MalformedTexts == {TextWords, TextNoSeconds, TextEmpty}

GridOrders == {<<"A", "B">>, <<"B", "A">>}

\* Lap number `number`: the drivers of `order` that are still running, in
\* position order, each with its lap time text.
JolpicaLap(number, order, running, time) ==
  LET IsRunning(d) == d \in running
      listed == SelectSeq(order, IsRunning)
  IN  [number |-> DigitText(number),
       Timings |-> [i \in 1..Len(listed) |->
                      [driverId |-> listed[i],
                       position |-> DigitText(i),
                       time |-> time[listed[i]]]]]

JolpicaPitStop(driverId, lap) ==
  [driverId |-> driverId, lap |-> DigitText(lap), stop |-> DigitText(1),
   duration |-> TextStop]

PitStopLists(lastLap) ==
  {<<>>,
   <<JolpicaPitStop("A", 1)>>,
   <<JolpicaPitStop("B", lastLap), JolpicaPitStop("A", 1)>>,
   <<JolpicaPitStop("A", lastLap + 1)>>}

JolpicaResult(driverId, status, laps, fastest) ==
  [driverId |-> driverId, status |-> status, laps |-> DigitText(laps),
   FastestLap |-> fastest]

FastestLapOf(rank, lap) ==
  <<[rank |-> rank, lap |-> DigitText(lap), time |-> TextMinute12]>>

\* The classification of A (all laps) and B (lapsB laps): their statuses and
\* who, if anyone, holds the fastest lap.
ResultLists(lastLap, lapsB) ==
  LET Statuses == {<<StatusFinished, StatusFinished>>, <<StatusFinished, StatusLapped>>,
                   <<StatusEngine, StatusFinished>>, <<StatusFinished, StatusEngine>>}
      Fastest == {<<<<>>, <<>>>>,
                  <<FastestLapOf("1", 1), FastestLapOf("2", 1)>>,
                  <<FastestLapOf("2", 1), FastestLapOf("1", lastLap)>>}
  IN  {<<JolpicaResult("A", s[1], lastLap, f[1]), JolpicaResult("B", s[2], lapsB, f[2])>> :
         s \in Statuses, f \in Fastest}

RaceData(laps, pitStops, results) ==
  [laps |-> laps, pitStops |-> pitStops, results |-> results]

\* A race of A and B over n laps; B keeps one lap time and runs lapsB laps.
DuelLaps(n, lapsB, order, timeA, timeB) ==
  [k \in 1..n |->
     JolpicaLap(k, order[k], IF k <= lapsB THEN {"A", "B"} ELSE {"A"},
                [d \in {"A", "B"} |-> IF d = "A" THEN timeA[k] ELSE timeB])]

\* Races of 1..MaxRaceLaps laps whose lap time texts are all well formed.
WellFormedRace ==
  \E n \in 1..MaxRaceLaps :
    \E lapsB \in {n - 1, n} :
      \E order \in [1..n -> GridOrders], timeA \in [1..n -> WellFormedTexts],
         timeB \in {TextMinute20, TextMinute12},
         pitStops \in PitStopLists(n), results \in ResultLists(n, lapsB) :
        raceData = RaceData(DuelLaps(n, lapsB, order, timeA, timeB), pitStops, results)

\* One-lap races in which A's lap time text is malformed.
MalformedRace ==
  \E order \in [1..1 -> GridOrders], timeA \in [1..1 -> MalformedTexts],
     timeB \in {TextMinute20, TextWords},
     pitStops \in {<<>>, <<JolpicaPitStop("A", 1)>>, <<JolpicaPitStop("B", 1)>>},
     results \in ResultLists(1, 1) :
    raceData = RaceData(DuelLaps(1, 1, order, timeA, timeB), pitStops, results)

\* Two laps of A alone, one of them with a lap time text that is malformed
\* or reads as zero.
SoloRace ==
  \E time \in {<<TextWords, TextMinute20>>, <<TextMinute20, TextWords>>,
                <<TextEmpty, TextMinute20>>, <<TextMinute20, TextEmpty>>,
                <<TextMinute20, TextZero>>, <<TextMinute20, TextHours>>},
     fastest \in {<<>>, FastestLapOf("1", 2)} :
    raceData =
      RaceData([k \in 1..2 |-> JolpicaLap(k, <<"A">>, {"A"}, [d \in {"A"} |-> time[k]])],
               <<>>, <<JolpicaResult("A", StatusFinished, 2, fastest)>>)

\* Lap number `number` with its timings in the order of `listing`, each
\* driver at the position `position` gives it.
ListedLap(number, listing, position, time) ==
  [number |-> DigitText(number),
   Timings |-> [i \in 1..Len(listing) |->
                  [driverId |-> listing[i],
                   position |-> DigitText(position[listing[i]]),
                   time |-> time[listing[i]]]]]

TrioTimes == [d \in {"A", "B", "C"} |->
                IF d = "A" THEN TextMinute20 ELSE IF d = "B" THEN TextMinute12
                ELSE TextSeconds]

\* Two laps of A, B and C: they finish lap 1 in that order and lap 2 in any
\* order, the timings of lap 2 are listed in any order, and the two laps are
\* delivered in either order.
TrioRace ==
  \E position \in Permutations({"A", "B", "C"}), listing \in Permutations(1..3),
     firstLap \in 1..2 :
    LET rank == [d \in {"A", "B", "C"} |->
                   IF position["A"] = d THEN 1 ELSE IF position["B"] = d THEN 2 ELSE 3]
        grid == <<"A", "B", "C">>
        lap1 == ListedLap(1, grid, [d \in {"A", "B", "C"} |->
                                      IF d = "A" THEN 1 ELSE IF d = "B" THEN 2 ELSE 3],
                          TrioTimes)
        lap2 == ListedLap(2, [i \in 1..3 |-> grid[listing[i]]], rank, TrioTimes)
    IN  raceData =
          RaceData(IF firstLap = 1 THEN <<lap1, lap2>> ELSE <<lap2, lap1>>,
                   <<>>,
                   [i \in 1..3 |-> JolpicaResult(grid[i], StatusFinished, 2, <<>>)])

\* the frameInterval parameter of a request
TextCoarse == <<"4", "0", "0", "0", "0">>
TextHalfSecond == <<"5", "0", "0">>
TextFifthSecond == <<"2", "0", "0">>
TextNought == <<"0">>

\* the query of a timeline request; frameInterval is <<>> or <<its text>>
Query(frameInterval) == [frameInterval |-> frameInterval]

\* lap times of a sprint
TextSprint25 == <<"2", ".", "5">>
TextSprint40 == <<"4", ".", "0">>
TextSprint50 == <<"5", ".", "0">>

\* A sprint of A and B over n short laps, both classified.
SprintRace ==
  \E n \in 1..MaxRaceLaps :
    \E order \in [1..n -> GridOrders],
       timeA \in [1..n -> {TextSprint25, TextSprint40, TextSprint50}],
       timeB \in [1..n -> {TextSprint25, TextSprint50}] :
      raceData =
        RaceData([k \in 1..n |->
                    ListedLap(k, order[k],
                              [d \in {"A", "B"} |-> IF order[k][1] = d THEN 1 ELSE 2],
                              [d \in {"A", "B"} |-> IF d = "A" THEN timeA[k] ELSE timeB[k]])],
                 <<>>,
                 <<JolpicaResult("A", StatusFinished, n, <<>>),
                   JolpicaResult("B", StatusFinished, n, <<>>)>>)

(* ------------------------- timeline generator ------------------------- *)
DEFAULT_FRAME_INTERVAL == 500

\* The running sums of calculateRaceDuration from sample i on: driverTimes is
\* the Map of the sums so far, maxTime the largest sum seen.
RECURSIVE raceDurationFrom(_, _, _, _)
raceDurationFrom(samples, i, driverTimes, maxTime) ==
  IF i > Len(samples) THEN maxTime
  ELSE LET driverId == samples[i].driverId
           currentTime == IF driverId \in DOMAIN driverTimes
                          THEN OrZero(driverTimes[driverId]) ELSE Zero
           newTime == NAdd(currentTime, samples[i].timeInMs)
       IN  raceDurationFrom(samples, i + 1,
                            [d \in DOMAIN driverTimes \cup {driverId} |->
                               IF d = driverId THEN newTime ELSE driverTimes[d]],
                            IF NLt(maxTime, newTime) THEN newTime ELSE maxTime)

calculateRaceDuration(lapTimings) ==
  IF Len(lapTimings) = 0 THEN Zero
  ELSE raceDurationFrom(allTimings(lapTimings), 1, <<>>, Zero)

\* Math.min(100, Math.max(0, (timeIntoLap / lapDuration) * 100))
lapProgress(timeIntoLap, lapDuration) ==
  IF IsNaN(timeIntoLap) \/ IsNaN(lapDuration) THEN NaN
  ELSE IF lapDuration = Zero
       THEN (IF timeIntoLap = Zero THEN NaN
             ELSE IF RLt(Zero, timeIntoLap) THEN Rat(100) ELSE Zero)
       ELSE LET progress == NMul(NDiv(timeIntoLap, lapDuration), Rat(100))
            IN  IF RLt(progress, Zero) THEN Zero
                ELSE IF RLt(Rat(100), progress) THEN Rat(100)
                ELSE progress

interpolatePosition(processedData, targetTimeMs, totalLaps) ==
  LET laps == processedData.laps
      i == FirstIndex([n \in 1..Len(laps) |->
                         NLe(targetTimeMs, laps[n].cumulativeTimeInMs)])
  IN  IF Len(laps) = 0 THEN [lap |-> Zero, progress |-> Zero, position |-> Zero]
      ELSE IF i # 0
      THEN LET currentLap == laps[i]
               prevCumulativeTime == IF i > 1 THEN laps[i - 1].cumulativeTimeInMs ELSE Zero
               timeIntoLap == NSub(targetTimeMs, prevCumulativeTime)
           IN  [lap |-> currentLap.lap,
                progress |-> lapProgress(timeIntoLap, currentLap.timeInMs),
                position |-> currentLap.position]
      ELSE [lap |-> laps[Len(laps)].lap,
            progress |-> Rat(100),
            position |-> laps[Len(laps)].position]

\* The entries the Map of leader times is set to, in the order of the laps,
\* from lap record k on.
RECURSIVE leaderTimesFrom(_, _, _)
leaderTimesFrom(lapTimings, k, cumulativeTime) ==
  IF k > Len(lapTimings) THEN <<>>
  ELSE LET timings == lapTimings[k].timings
           leader == FirstIndex([i \in 1..Len(timings) |->
                                   NEq(timings[i].position, Rat(1))])
       IN  IF leader # 0
           THEN LET time == NAdd(cumulativeTime, timings[leader].timeInMs)
                IN  <<[lap |-> lapTimings[k].lap, time |-> time]>>
                      \o leaderTimesFrom(lapTimings, k + 1, time)
           ELSE leaderTimesFrom(lapTimings, k + 1, cumulativeTime)

calculateLeaderTimes(lapTimings) == leaderTimesFrom(lapTimings, 1, Zero)

\* leaderTimes.get(lap): <<>> (undefined) or <<the value last set for lap>>
leaderTimeAt(leaderTimes, lap) ==
  LET set == {i \in 1..Len(leaderTimes) : leaderTimes[i].lap = lap}
  IN  IF set = {} THEN <<>>
      ELSE <<leaderTimes[CHOOSE i \in set : \A j \in set : j <= i].time>>

\* the Map from a driver to the Set of the laps of its pit stops
createPitStopMap(pitStops) ==
  [d \in {pitStops[i].driverId : i \in 1..Len(pitStops)} |->
     {pitStops[i].lap : i \in {j \in 1..Len(pitStops) : pitStops[j].driverId = d}}]

\* the state of one driver in the frame at timeMs
driverState(driver, timeMs, processedLapData, pitStopMap, dnfs, fastestLapDriverId, leaderTimes, totalLaps) ==
  LET d == FirstIndex([i \in 1..Len(processedLapData) |->
                         processedLapData[i].driverId = driver.driverId])
  IN  IF d = 0 \/ Len(processedLapData[d].laps) = 0
      THEN [driverId |-> driver.driverId, position |-> Zero, progress |-> Zero,
            lap |-> Zero, isInPit |-> FALSE, isDNF |-> FALSE, hasFastestLap |-> FALSE,
            gapToLeader |-> Zero, lastLapTime |-> Zero]
      ELSE LET driverData == processedLapData[d]
               at == interpolatePosition(driverData, timeMs, totalLaps)
               isInPit == /\ driver.driverId \in DOMAIN pitStopMap
                          /\ at.lap \in pitStopMap[driver.driverId]
                          /\ NLt(Rat(85), at.progress)
                          /\ NLt(at.progress, Rat(100))
               dnfInfo == FirstIndex([i \in 1..Len(dnfs) |->
                                        dnfs[i].driverId = driver.driverId])
               isDNF == dnfInfo # 0 /\ NLe(dnfs[dnfInfo].lap, at.lap)
               hasFastestLap == fastestLapDriverId = <<driver.driverId>>
               leaderTime == IF leaderTimeAt(leaderTimes, at.lap) = <<>> THEN Zero
                             ELSE OrZero(leaderTimeAt(leaderTimes, at.lap)[1])
               lapData == FirstIndex([n \in 1..Len(driverData.laps) |->
                                        NEq(driverData.laps[n].lap, at.lap)])
               driverTime == IF lapData = 0 THEN Zero
                             ELSE OrZero(driverData.laps[lapData].cumulativeTimeInMs)
               difference == NSub(driverTime, leaderTime)
               gapToLeader == IF NEq(at.position, Rat(1)) THEN Zero
                              ELSE IF RLt(Zero, difference) THEN difference ELSE Zero
               lastLapTime == IF lapData = 0 THEN Zero
                              ELSE OrZero(driverData.laps[lapData].timeInMs)
           IN  [driverId |-> driver.driverId, position |-> at.position,
                progress |-> at.progress, lap |-> at.lap, isInPit |-> isInPit,
                isDNF |-> isDNF, hasFastestLap |-> hasFastestLap,
                gapToLeader |-> gapToLeader, lastLapTime |-> lastLapTime]

\* the sign of the comparator generateFrame sorts the driver states with
compareByPosition(a, b) ==
  IF NEq(a.position, Zero) THEN 1
  ELSE IF NEq(b.position, Zero) THEN -1
  ELSE LET difference == NSub(a.position, b.position)
       IN  IF IsNaN(difference) \/ difference[1] = 0 THEN 0
           ELSE IF difference[1] < 0 THEN -1 ELSE 1

RECURSIVE positionPoint(_, _, _)
positionPoint(sorted, state, i) ==
  IF i = 0 \/ compareByPosition(sorted[i], state) <= 0 THEN i
  ELSE positionPoint(sorted, state, i - 1)

\* The stable sort by position; the comparator orders the states of a frame
\* consistently when at most one of them has position 0.
RECURSIVE sortByPosition(_)
sortByPosition(list) ==
  IF list = <<>> THEN <<>>
  ELSE LET sorted == sortByPosition(SubSeq(list, 1, Len(list) - 1))
           state == list[Len(list)]
           k == positionPoint(sorted, state, Len(sorted))
       IN  SubSeq(sorted, 1, k) \o <<state>> \o SubSeq(sorted, k + 1, Len(sorted))

\* Math.abs(event.timeInMs - timeMs) < DEFAULT_FRAME_INTERVAL / 2
IsFrameEvent(event, timeMs) ==
  LET difference == NSub(event.timeInMs, timeMs)
  IN  /\ ~IsNaN(difference)
      /\ RLt(<<Abs(difference[1]), difference[2]>>, <<DEFAULT_FRAME_INTERVAL, 2>>)

generateFrame(timeMs, drivers, processedLapData, pitStopMap, eventLog, dnfs, fastestLapDriverId, leaderTimes, totalLaps) ==
  LET driverStates ==
        [i \in 1..Len(drivers) |->
           driverState(drivers[i], timeMs, processedLapData, pitStopMap, dnfs,
                       fastestLapDriverId, leaderTimes, totalLaps)]
      frameEvents ==
        LET RECURSIVE Filter(_)
            Filter(i) ==
              IF i > Len(eventLog) THEN <<>>
              ELSE (IF IsFrameEvent(eventLog[i], timeMs) THEN <<eventLog[i]>> ELSE <<>>)
                     \o Filter(i + 1)
        IN  Filter(1)
  IN  [timeInMs |-> timeMs,
       drivers |-> sortByPosition(driverStates),
       events |-> frameEvents]

\* The frames of the loop for (timeMs = 0; timeMs <= totalDurationMs;
\* timeMs += frameInterval), for a frame interval > 0.
generateRaceTimeline(metadata, drivers, lapTimings, processedLapData, pitStops, eventLog, dnfs, fastestLapDriverId, frameInterval) ==
  LET totalDurationMs == calculateRaceDuration(lapTimings)
      leaderTimes == calculateLeaderTimes(lapTimings)
      pitStopMap == createPitStopMap(pitStops)
      last == (totalDurationMs[1] * frameInterval[2])
                \div (totalDurationMs[2] * frameInterval[1])
  IN  [metadata |-> metadata,
       drivers |-> drivers,
       totalDurationMs |-> totalDurationMs,
       frames |-> [k \in 1..(last + 1) |->
                     generateFrame(NMul(Rat(k - 1), frameInterval), drivers,
                                   processedLapData, pitStopMap, eventLog, dnfs,
                                   fastestLapDriverId, leaderTimes, metadata.totalLaps)],
       events |-> eventLog]

\* The frames compressTimeline keeps when it thins: the first, those of the
\* middle that stand at a multiple of the stride or at the time of an event,
\* and the last.  Math.ceil(length / 0) is Infinity and i % Infinity is i.
thinnedFrames(tl, targetFrameCount) ==
  LET frames == tl.frames
      interval == (Len(frames) + targetFrameCount - 1) \div targetFrameCount
      AtInterval(i) == targetFrameCount > 0 /\ i % interval = 0
      HasEvent(frame) ==
        \E e \in 1..Len(tl.events) : tl.events[e].timeInMs = frame.timeInMs
      RECURSIVE Middle(_)
      Middle(i) ==
        IF i >= Len(frames) - 1 THEN <<>>
        ELSE (IF AtInterval(i) \/ HasEvent(frames[i + 1]) THEN <<frames[i + 1]>> ELSE <<>>)
               \o Middle(i + 1)
  IN  <<frames[1]>> \o Middle(1) \o <<frames[Len(frames)]>>

\* Mutation: the timeline is thinned also when it is within the target.
compressTimelineAlways(tl, targetFrameCount) ==
  [tl EXCEPT !.frames = thinnedFrames(tl, targetFrameCount)]

compressTimeline(tl, targetFrameCount) ==
  IF Len(tl.frames) <= targetFrameCount THEN tl
  ELSE [tl EXCEPT !.frames = thinnedFrames(tl, targetFrameCount)]

(* --------------------------- timeline route --------------------------- *)
\* The event log the timeline route builds from the fetched race data.
routeEvents(data) ==
  LET lapTimings == processLapData(data.laps)
      pitStops == processPitStops(data.pitStops)
      driverIds == [i \in 1..Len(data.results) |-> data.results[i].driverId]
      processedLapData == calculateDriverLapData(lapTimings, driverIds)
      dnfs == identifyDNFs(data.results)
      fastestLap == findFastestLap(data.results)
  IN  buildEventTimeline(lapTimings, pitStops, processedLapData, dnfs, fastestLap)

RouteFrameInterval == 1000

\* parseInt(req.query.frameInterval) || 1000; the parameter is <<>> when the
\* request has none
routeFrameInterval(request) ==
  LET parsed == IF request.frameInterval = <<>> THEN NaN
                ELSE parseInt(request.frameInterval[1])
  IN  IF OrZero(parsed) = Zero THEN Rat(RouteFrameInterval) ELSE parsed

processDrivers(results) == [i \in 1..Len(results) |-> [driverId |-> results[i].driverId]]

\* Math.max(...numbers) for a list that is not empty
RECURSIVE MathMax(_)
MathMax(numbers) ==
  IF Len(numbers) = 1 THEN Head(numbers)
  ELSE LET rest == MathMax(Tail(numbers))
       IN  IF IsNaN(Head(numbers)) \/ IsNaN(rest) THEN NaN
           ELSE IF RLt(rest, Head(numbers)) THEN Head(numbers) ELSE rest

\* The timeline the route answers with, given the event log it has built.
routeTimeline(data, request, eventLog) ==
  LET frameInterval == routeFrameInterval(request)
      drivers == processDrivers(data.results)
      lapTimings == processLapData(data.laps)
      pitStops == processPitStops(data.pitStops)
      driverIds == [i \in 1..Len(drivers) |-> drivers[i].driverId]
      processedLapData == calculateDriverLapData(lapTimings, driverIds)
      dnfs == identifyDNFs(data.results)
      fastestLap == findFastestLap(data.results)
      totalLaps == MathMax([i \in 1..Len(data.results) |-> parseInt(data.results[i].laps)])
  IN  generateRaceTimeline([totalLaps |-> totalLaps], drivers, lapTimings, processedLapData,
                           pitStops, eventLog, dnfs,
                           IF fastestLap = <<>> THEN <<>> ELSE <<fastestLap[1].driverId>>,
                           frameInterval)

\* The route has fetched the data of one race: a race of full-length laps
\* sampled coarsely, or a sprint sampled at the usual intervals.
EventsInit ==
  /\ PlayInit
  /\ \/ /\ WellFormedRace \/ MalformedRace \/ SoloRace \/ TrioRace
        /\ query = Query(<<TextCoarse>>)
     \/ /\ SprintRace
        /\ query \in {Query(<<>>), Query(<<TextHalfSecond>>), Query(<<TextNought>>),
                      Query(<<TextFifthSecond>>)}
  /\ events = <<>>
  /\ raceTimeline = <<>>
  /\ compressed = <<>>
  /\ frameLoop = <<>>
  /\ FetchIdle

\* The route builds the event log of the fetched race, generates the timeline
\* and answers with it.
getTimeline ==
  /\ events = <<>>
  /\ \E log \in routeEvents(raceData) :
       /\ events' = <<log>>
       /\ raceTimeline' = <<routeTimeline(raceData, query, log)>>
  /\ UNCHANGED <<raceData, query, compressed, frameLoop>>
  /\ UNCHANGED <<playVars, fetchVars>>

EventsNext == getTimeline

SpecEvents == EventsInit /\ [][EventsNext]_vars

(* ------------------------ timeline compression ------------------------ *)
\* largest target frame count handed to compressTimeline (the smallest is 0)
MaxTargetFrames == 4

\* The route has fetched a sprint; the request asks for the usual intervals or
\* for one longer than the sprint.
CompressInit ==
  /\ PlayInit
  /\ SprintRace
  /\ query \in {Query(<<>>), Query(<<TextHalfSecond>>), Query(<<TextCoarse>>)}
  /\ events = <<>>
  /\ raceTimeline = <<>>
  /\ compressed = <<>>
  /\ frameLoop = <<>>
  /\ FetchIdle

\* The generated timeline is compressed to a target frame count.
compress ==
  /\ raceTimeline # <<>>
  /\ \E targetFrameCount \in 0..MaxTargetFrames :
       compressed' = <<[targetFrameCount |-> targetFrameCount,
                        timeline |-> compressTimeline(raceTimeline[1], targetFrameCount)]>>
  /\ UNCHANGED <<raceData, query, events, raceTimeline, frameLoop>>
  /\ UNCHANGED <<playVars, fetchVars>>

CompressNext == getTimeline \/ compress

SpecCompress == CompressInit /\ [][CompressNext]_vars


(* ----------------------------- frame loop ----------------------------- *)
\* the frameInterval parameter of a request that asks for a negative interval
TextMinusHalfSecond == <<"-", "5", "0", "0">>

\* The number of frames the memory of the process holds.
MaxLoopFrames == 32

\* The frame of the route's timeline at timeMs, given the event log.
routeFrame(data, eventLog, timeMs) ==
  LET drivers == processDrivers(data.results)
      lapTimings == processLapData(data.laps)
      driverIds == [i \in 1..Len(drivers) |-> drivers[i].driverId]
      fastestLap == findFastestLap(data.results)
      totalLaps == MathMax([i \in 1..Len(data.results) |-> parseInt(data.results[i].laps)])
  IN  generateFrame(timeMs, drivers, calculateDriverLapData(lapTimings, driverIds),
                    createPitStopMap(processPitStops(data.pitStops)), eventLog,
                    identifyDNFs(data.results),
                    IF fastestLap = <<>> THEN <<>> ELSE <<fastestLap[1].driverId>>,
                    calculateLeaderTimes(lapTimings), totalLaps)

\* timeMs <= totalDurationMs, the condition of the frame loop
loopContinues == NLe(frameLoop[1].timeMs, frameLoop[1].totalDurationMs)

\* The route has fetched a sprint of one lap; the request has no
\* frameInterval, or one that reads as 500, as 0 or as -500.
LoopInit ==
  /\ PlayInit
  /\ SprintRace
  /\ Len(raceData.laps) = 1
  /\ query \in {Query(<<>>), Query(<<TextHalfSecond>>), Query(<<TextNought>>),
                Query(<<TextMinusHalfSecond>>)}
  /\ events = <<>>
  /\ raceTimeline = <<>>
  /\ compressed = <<>>
  /\ frameLoop = <<>>
  /\ FetchIdle

\* The route builds the event log and generateRaceTimeline enters its loop
\* with timeMs = 0; totalDurationMs and frameInterval are its locals.  A frame
\* is a function of its timeMs: frameTimes are the times of the frames pushed.
enterLoop ==
  /\ events = <<>>
  /\ \E log \in routeEvents(raceData) : events' = <<log>>
  /\ frameLoop' = <<[timeMs |-> Zero,
                     totalDurationMs |-> calculateRaceDuration(processLapData(raceData.laps)),
                     frameInterval |-> routeFrameInterval(query),
                     frameTimes |-> <<>>,
                     done |-> FALSE,
                     crashed |-> FALSE]>>
  /\ UNCHANGED <<raceData, query, raceTimeline, compressed>>
  /\ UNCHANGED <<playVars, fetchVars>>

\* One pass of the loop body: frames.push(generateFrame(timeMs, ...)) and
\* timeMs += frameInterval.
pushFrame ==
  /\ frameLoop # <<>>
  /\ ~frameLoop[1].done
  /\ loopContinues
  /\ Len(frameLoop[1].frameTimes) < MaxLoopFrames
  /\ frameLoop' =
       <<[frameLoop[1] EXCEPT
            !.timeMs = NAdd(frameLoop[1].timeMs, frameLoop[1].frameInterval),
            !.frameTimes = Append(frameLoop[1].frameTimes, frameLoop[1].timeMs)]>>
  /\ UNCHANGED <<raceData, query, events, raceTimeline, compressed>>
  /\ UNCHANGED <<playVars, fetchVars>>

\* frames.push finds no memory left: the process ends and the request is
\* never answered.
exhaustMemory ==
  /\ frameLoop # <<>>
  /\ ~frameLoop[1].done
  /\ ~frameLoop[1].crashed
  /\ loopContinues
  /\ Len(frameLoop[1].frameTimes) = MaxLoopFrames
  /\ frameLoop' = <<[frameLoop[1] EXCEPT !.crashed = TRUE]>>
  /\ UNCHANGED <<raceData, query, events, raceTimeline, compressed>>
  /\ UNCHANGED <<playVars, fetchVars>>

\* The loop condition fails: the loop is left with the frames pushed so far.
leaveLoop ==
  /\ frameLoop # <<>>
  /\ ~frameLoop[1].done
  /\ ~loopContinues
  /\ frameLoop' = <<[frameLoop[1] EXCEPT !.done = TRUE]>>
  /\ UNCHANGED <<raceData, query, events, raceTimeline, compressed>>
  /\ UNCHANGED <<playVars, fetchVars>>

\* generateRaceTimeline returns and the route answers with the timeline.
respond ==
  /\ frameLoop # <<>>
  /\ frameLoop[1].done
  /\ raceTimeline = <<>>
  /\ raceTimeline' =
       <<[routeTimeline(raceData, query, events[1]) EXCEPT
            !.frames = [k \in 1..Len(frameLoop[1].frameTimes) |->
                          routeFrame(raceData, events[1], frameLoop[1].frameTimes[k])]]>>
  /\ UNCHANGED <<raceData, query, events, compressed, frameLoop>>
  /\ UNCHANGED <<playVars, fetchVars>>

LoopNext == enterLoop \/ pushFrame \/ exhaustMemory \/ leaveLoop \/ respond

\* The loop runs to completion: every pass and the exit are taken when they
\* can be.
SpecLoop ==
  /\ LoopInit
  /\ [][LoopNext]_vars
  /\ WF_vars(pushFrame)
  /\ WF_vars(exhaustMemory)
  /\ WF_vars(leaveLoop)


(* --------------------------- timeline fetch --------------------------- *)
\* the seasons and rounds a race can be selected by ("" is no selection)
Seasons == {"", "2023", "2024"}
Rounds == {"", "1", "2"}

\* largest number of requests awaiting their answer
MaxInFlight == 2

\* The body of fetchTimeline up to its await, for the props of the render that
\* created it.
fetchTimeline(season, round) ==
  IF season = "" \/ round = ""
  THEN UNCHANGED <<hookState, inFlight>>
  ELSE /\ hookState' = [hookState EXCEPT !.isLoading = TRUE, !.error = <<>>]
       /\ inFlight' = Append(inFlight, [season |-> season, round |-> round])

\* The hook after its first render and the effect of it.
FetchInit ==
  /\ PlayInit
  /\ EventsIdle
  /\ props \in [season : Seasons, round : Rounds]
  /\ IF props.season = "" \/ props.round = ""
     THEN /\ hookState = [timeline |-> <<>>, isLoading |-> FALSE, error |-> <<>>]
          /\ inFlight = <<>>
     ELSE /\ hookState = [timeline |-> <<>>, isLoading |-> TRUE, error |-> <<>>]
          /\ inFlight = <<props>>

\* A render with another season or round: fetchTimeline is created anew and
\* the effect calls it.
select(season, round) ==
  /\ [season |-> season, round |-> round] # props
  /\ Len(inFlight) < MaxInFlight
  /\ props' = [season |-> season, round |-> round]
  /\ fetchTimeline(season, round)
  /\ UNCHANGED <<playVars, eventVars>>

refetch ==
  /\ Len(inFlight) < MaxInFlight
  /\ fetchTimeline(props.season, props.round)
  /\ UNCHANGED props
  /\ UNCHANGED <<playVars, eventVars>>

\* the list without its i-th entry
Without(list, i) == SubSeq(list, 1, i - 1) \o SubSeq(list, i + 1, Len(list))

\* The answer to request i arrives: the awaited promise is fulfilled with the
\* timeline of the requested race, here named by its season and round.
resolve(i) ==
  /\ i \in 1..Len(inFlight)
  /\ hookState' = [hookState EXCEPT !.timeline = <<inFlight[i]>>, !.isLoading = FALSE]
  /\ inFlight' = Without(inFlight, i)
  /\ UNCHANGED props
  /\ UNCHANGED <<playVars, eventVars>>

\* Request i fails: the awaited promise is rejected.
reject(i) ==
  /\ i \in 1..Len(inFlight)
  /\ hookState' = [hookState EXCEPT !.error = <<"Failed to fetch timeline">>,
                                    !.isLoading = FALSE]
  /\ inFlight' = Without(inFlight, i)
  /\ UNCHANGED props
  /\ UNCHANGED <<playVars, eventVars>>

FetchNext ==
  \/ \E season \in Seasons, round \in Rounds : select(season, round)
  \/ refetch
  \/ \E i \in 1..MaxInFlight : resolve(i)
  \/ \E i \in 1..MaxInFlight : reject(i)

SpecFetch == FetchInit /\ [][FetchNext]_vars


(* ============================== claims ================================ *)

\* C1: on a loaded timeline the virtual clock always satisfies
\* 0 <= currentTimeMs <= totalDurationMs, whatever operations have run.
C1_ClockInRange ==
  timeline.loaded =>
    /\ 0 <= playbackState.currentTimeMs
    /\ playbackState.currentTimeMs <= timeline.totalDurationMs

\* The target clamped into [0, totalDurationMs].
ClampedTarget(tl, target) ==
  IF target < 0 THEN 0
  ELSE IF target > tl.totalDurationMs THEN tl.totalDurationMs
  ELSE target

\* The index of the last frame whose timeInMs <= timeMs.
LastFrameAtOrBefore(tl, timeMs) ==
  CHOOSE k \in 0..(Len(tl.frames) - 1) :
    /\ FrameAt(tl, k).timeInMs <= timeMs
    /\ \A j \in 0..(Len(tl.frames) - 1) : FrameAt(tl, j).timeInMs <= timeMs => j <= k

SeekResult(target) ==
  playbackState' =
    [isPlaying |-> playbackState.isPlaying,
     speed |-> playbackState.speed,
     currentTimeMs |-> ClampedTarget(timeline, target),
     currentFrameIndex |-> LastFrameAtOrBefore(timeline, ClampedTarget(timeline, target))]

\* C2: seekTo and seekToPercent, in any playback state and for any target,
\* set the clock to the target clamped into [0, totalDurationMs], set the frame
\* index to the last frame at or before that time, and keep isPlaying and speed.
C2_SeekClamps ==
  [][ /\ \A timeMs \in SeekTargets : seekTo(timeMs) => SeekResult(timeMs)
      /\ \A percent \in SeekPercents :
           seekToPercent(percent) =>
             SeekResult((percent * timeline.totalDurationMs) \div 100) ]_vars

\* A seek below 0 while playing away from the start has set the clock to 0.
C2_Witness ==
  /\ lastOp = "seekTo"
  /\ playbackState.isPlaying
  /\ playbackState.speed = 2
  /\ playbackState.currentTimeMs = 0
  /\ rendered.currentTimeMs > 0

AtEnd ==
  /\ playbackState.currentTimeMs = timeline.totalDurationMs
  /\ playbackState.currentFrameIndex = Len(timeline.frames) - 1
  /\ playbackState.isPlaying = FALSE

ReachesEnd ==
  /\ rafCallback # <<>>
  /\ playbackState.isPlaying
  /\ playbackState.currentTimeMs + TickDelta * playbackState.speed * PaceConstant
       >= timeline.totalDurationMs

\* C3: a tick while playing that would move the clock to or past
\* totalDurationMs leaves currentTimeMs = totalDurationMs, the last frame index
\* and isPlaying = false; and uninterrupted playback at positive speed
\* eventually reaches that end state.
C3_StopsAtEnd ==
  /\ [][(animate /\ ReachesEnd) => AtEnd']_vars
  /\ (timeline.loaded /\ playbackState.isPlaying /\ playbackState.speed > 0) ~> AtEnd

\* Playback has run into the end of the timeline from before it.
C3_Witness ==
  /\ lastOp = "animate"
  /\ timeline.loaded
  /\ AtEnd
  /\ rendered.isPlaying
  /\ rendered.currentTimeMs < timeline.totalDurationMs

\* C4: restart yields isPlaying = false, currentTimeMs = 0, currentFrameIndex
\* = 0 and keeps the speed most recently set, for every interleaving of
\* setSpeed and restart.
C4_RestartKeepsSpeed ==
  [][restart =>
       playbackState' = [isPlaying |-> FALSE, currentTimeMs |-> 0,
                         currentFrameIndex |-> 0, speed |-> playbackState.speed]]_vars

\* C5: while no timeline is loaded the PlaybackState stays at its default,
\* currentFrame is null and the interpolated competitor list is empty.
C5_NoTimelineIsDefault ==
  ~timeline.loaded =>
    /\ playbackState = PlaybackDefault
    /\ getFrame(timeline, rendered.currentFrameIndex) = <<>>
    /\ interpolatedDrivers = <<>>

\* C6: every change of the timeline (to another one or to none) resets the
\* playback state to stopped: isPlaying = false, currentTimeMs = 0,
\* currentFrameIndex = 0.
C6_TimelineChangeResets ==
  [][timeline' # timeline =>
       /\ playbackState'.isPlaying = FALSE
       /\ playbackState'.currentTimeMs = 0
       /\ playbackState'.currentFrameIndex = 0]_vars

(* --------------------------- interpolation ---------------------------- *)
FloorIndex == LastFrameAtOrBefore(timeline, rendered.currentTimeMs)
FloorFrame == FrameAt(timeline, FloorIndex)
NextFrame == FrameAt(timeline, FloorIndex + 1)
HasNextFrame == FloorIndex + 1 < Len(timeline.frames)
\* tLocal = Elapsed / Duration
Elapsed == rendered.currentTimeMs - FloorFrame.timeInMs
Duration == NextFrame.timeInMs - FloorFrame.timeInMs
\* the positions of competitor i of the floor frame in the next frame
InNext(i) ==
  {j \in 1..Len(NextFrame.drivers) :
     NextFrame.drivers[j].driverId = FloorFrame.drivers[i].driverId}

\* C7: interpolating at a clock value equal to frames[k].timeInMs selects
\* frame k as the floor frame with tLocal = 0 and returns frame k's
\* competitor states unchanged.
C7_ExactFrameTimeUnchanged ==
  \A k \in 0..(Len(timeline.frames) - 1) :
    rendered.currentTimeMs = FrameAt(timeline, k).timeInMs =>
      /\ findFrameIndex(timeline, rendered.currentTimeMs) = k
      /\ k + 1 < Len(timeline.frames) =>
            interpolationFactor(FrameAt(timeline, k), FrameAt(timeline, k + 1),
                                rendered.currentTimeMs) = Rat(0)
      /\ interpolatedDrivers = FrameAt(timeline, k).drivers

\* The clock was moved onto the middle frame and the list rendered.
C7_Witness ==
  /\ lastOp = "render"
  /\ rendered.currentTimeMs = 4
  /\ interpolatedDrivers = FrameAt(timeline, 1).drivers
  /\ Len(FrameAt(timeline, 1).drivers) = 1
  /\ FrameAt(timeline, 1).drivers[1].progress # FrameAt(timeline, 0).drivers[1].progress

\* Position along the track of a progress value of competitor i between the
\* bracketing frames, counting a value below the floor progress as wrapped.
Track(i, progress) ==
  IF RLt(progress, FloorFrame.drivers[i].progress)
  THEN <<progress[1] + 100 * progress[2], progress[2]>>
  ELSE progress

\* floor.progress + (100 - floor.progress + next.progress) * tLocal, times Duration
WrapNumerator(i, j) ==
  FloorFrame.drivers[i].progress[1] * Duration
    + (100 - FloorFrame.drivers[i].progress[1] + NextFrame.drivers[j].progress[1]) * Elapsed

\* C8: for a competitor in both bracketing frames whose lap increases with
\* next.progress < floor.progress, the interpolated progress is
\* floor.progress + (100 - floor.progress + next.progress) * tLocal reduced
\* modulo 100 once it exceeds 100; it stays within [0, 100] and never moves
\* backwards along the track as tLocal grows.
C8_WrapMovesForward ==
  HasNextFrame =>
    \A i \in 1..Len(FloorFrame.drivers) : \A j \in InNext(i) :
      (/\ NextFrame.drivers[j].lap > FloorFrame.drivers[i].lap
       /\ RLt(NextFrame.drivers[j].progress, FloorFrame.drivers[i].progress)) =>
        /\ interpolatedDrivers[i].progress[1] * Duration =
              interpolatedDrivers[i].progress[2] *
                (IF WrapNumerator(i, j) > 100 * Duration
                 THEN WrapNumerator(i, j) % (100 * Duration)
                 ELSE WrapNumerator(i, j))
        /\ RLe(Rat(0), interpolatedDrivers[i].progress)
        /\ RLe(interpolatedDrivers[i].progress, Rat(100))
        /\ \A earlier \in FloorFrame.timeInMs..rendered.currentTimeMs :
              RLe(Track(i, interpolatedAt[timeline][earlier][i].progress),
                  Track(i, interpolatedDrivers[i].progress))

\* Competitor A, at 95% of lap 1 in the floor frame and at 30% of lap 2 in the
\* next one, is shown at 21.25% three quarters of the way between them.
C8_Witness ==
  /\ lastOp = "render"
  /\ rendered.currentTimeMs = 3
  /\ FloorFrame.drivers[1].progress = Rat(95)
  /\ FloorFrame.drivers[1].lap = 1
  /\ \E j \in InNext(1) : /\ NextFrame.drivers[j].progress = Rat(30)
                          /\ NextFrame.drivers[j].lap = 2
  /\ interpolatedDrivers[1].progress = <<85, 4>>

\* C9: lap and position of a competitor in both bracketing frames are the
\* floor frame's for tLocal <= 0.5 and the next frame's for tLocal > 0.5, and a
\* competitor missing from the next frame keeps its floor-frame state.
C9_HardStepAtHalf ==
  HasNextFrame =>
    /\ Len(interpolatedDrivers) = Len(FloorFrame.drivers)
    /\ \A i \in 1..Len(FloorFrame.drivers) :
         /\ InNext(i) = {} => interpolatedDrivers[i] = FloorFrame.drivers[i]
         /\ \A j \in InNext(i) :
              /\ 2 * Elapsed <= Duration =>
                    /\ interpolatedDrivers[i].lap = FloorFrame.drivers[i].lap
                    /\ interpolatedDrivers[i].position = FloorFrame.drivers[i].position
              /\ 2 * Elapsed > Duration =>
                    /\ interpolatedDrivers[i].lap = NextFrame.drivers[j].lap
                    /\ interpolatedDrivers[i].position = NextFrame.drivers[j].position

\* Past the half-way point A shows the next frame's lap and position while B,
\* missing from the next frame, is unchanged; at the half-way point itself A
\* would still show the floor frame's values.
C9_Witness ==
  /\ lastOp = "render"
  /\ rendered.currentTimeMs = 3
  /\ InNext(2) = {}
  /\ interpolatedDrivers[2] = FloorFrame.drivers[2]
  /\ interpolatedDrivers[1].lap = 2
  /\ FloorFrame.drivers[1].lap = 1
  /\ interpolatedDrivers[1].position # FloorFrame.drivers[1].position
  /\ interpolatedAt[timeline][2][1].lap = 1

\* C10: the event log returned by buildEventTimeline is sorted by time: every
\* event's time is less than or equal to the time of the event after it, for
\* every input of lap timings, pit stops, retirements and fastest lap.
C10_EventsSortedByTime ==
  events # <<>> =>
    \A i \in 1..(Len(events[1]) - 1) :
      NLe(events[1][i].timeInMs, events[1][i + 1].timeInMs)

(* --------------------------- event detector --------------------------- *)
EventLog == events[1]
IsBuilt == events # <<>>

\* the place of an event's type in the order lapComplete, pitStop, overtake,
\* retirement, fastestLap
CategoryRank(event) ==
  CASE event.type = "lap_complete" -> 1
    [] event.type = "pitstop" -> 2
    [] event.type = "overtake" -> 3
    [] event.type = "dnf" -> 4
    [] event.type = "fastest_lap" -> 5

LapTimings == processLapData(raceData.laps)

\* the drivers listed at `position` in the timings of lap number `lap`
HoldersOf(lap, position) ==
  UNION {{LapTimings[k].timings[i].driverId :
            i \in {m \in 1..Len(LapTimings[k].timings) :
                     NEq(LapTimings[k].timings[m].position, position)}} :
           k \in {n \in 1..Len(LapTimings) : NEq(LapTimings[n].lap, lap)}}

Overtaken(event) ==
  {event.data.overtakenDriverId[n] : n \in 1..Len(event.data.overtakenDriverId)}

\* C12: for every overtake event of competitor X at lap N, overtakenDriverId
\* is the competitor that held X's new position at lap N-1, for every order
\* in which the lap's timings are listed and when several competitors change
\* position on the same lap.
C12_OvertakenHeldThePosition ==
  IsBuilt =>
    \A i \in 1..Len(EventLog) :
      EventLog[i].type = "overtake" =>
        Overtaken(EventLog[i]) =
          HoldersOf(NSub(EventLog[i].lap, Rat(1)), EventLog[i].data.position)

\* C13: no overtake event in the event log has lap = 1, for every input
\* sequence of lap timing records.
C13_NoOvertakeOnLapOne ==
  IsBuilt =>
    \A i \in 1..Len(EventLog) :
      EventLog[i].type = "overtake" => ~NEq(EventLog[i].lap, Rat(1))

\* the lap series the route hands to the event detector
ProcessedLapData ==
  calculateDriverLapData(LapTimings,
                         [i \in 1..Len(raceData.results) |-> raceData.results[i].driverId])

DriverIds == {raceData.results[i].driverId : i \in 1..Len(raceData.results)}
LapNumbers == {LapTimings[k].lap : k \in 1..Len(LapTimings)}

\* the positions at which a driver is listed in the timings of lap number `lap`
PositionsAt(driverId, lap) ==
  UNION {{LapTimings[k].timings[i].position :
            i \in {m \in 1..Len(LapTimings[k].timings) :
                     LapTimings[k].timings[m].driverId = driverId}} :
           k \in {n \in 1..Len(LapTimings) : NEq(LapTimings[n].lap, lap)}}

GainsAt(driverId, lap) ==
  /\ NLe(Rat(2), lap)
  /\ \E now \in PositionsAt(driverId, lap),
        before \in PositionsAt(driverId, NSub(lap, Rat(1))) : NLt(now, before)

\* the entries of a driver's lap series for lap number `lap`
SeriesEntries(driverId, lap) ==
  UNION {{ProcessedLapData[d].laps[n] :
            n \in {m \in 1..Len(ProcessedLapData[d].laps) :
                     NEq(ProcessedLapData[d].laps[m].lap, lap)}} :
           d \in {c \in 1..Len(ProcessedLapData) : ProcessedLapData[c].driverId = driverId}}

OvertakesOf(driverId, lap) ==
  {i \in 1..Len(EventLog) :
     /\ EventLog[i].type = "overtake"
     /\ EventLog[i].driverId = driverId
     /\ EventLog[i].lap = lap}

\* C14: detectOvertakes emits exactly one overtake event for each competitor
\* and lap N >= 2 whose position at lap N is lower than at lap N-1, and none
\* otherwise; the event's time is the competitor's cumulative time after lap N
\* minus half of lap N's time, strictly between the competitor's cumulative
\* times after lap N-1 and after lap N.
C14_OneOvertakePerGain ==
  IsBuilt =>
    /\ \A i \in 1..Len(EventLog) :
         EventLog[i].type = "overtake" =>
           EventLog[i].driverId \in DriverIds /\ EventLog[i].lap \in LapNumbers
    /\ \A driverId \in DriverIds, lap \in LapNumbers :
         /\ Cardinality(OvertakesOf(driverId, lap)) =
              IF GainsAt(driverId, lap) THEN 1 ELSE 0
         /\ \A i \in OvertakesOf(driverId, lap) :
              \A entry \in SeriesEntries(driverId, lap),
                 before \in SeriesEntries(driverId, NSub(lap, Rat(1))) :
                /\ NEq(EventLog[i].timeInMs,
                       NSub(entry.cumulativeTimeInMs, NMul(entry.timeInMs, <<1, 2>>)))
                /\ NLt(before.cumulativeTimeInMs, EventLog[i].timeInMs)
                /\ NLt(EventLog[i].timeInMs, entry.cumulativeTimeInMs)

\* a result status that is neither "Finished" nor a lapped-finish code
IsNotFinished(result) ==
  result.status # StatusFinished /\ ~includes(result.status, "+")

DnfEventsOf(driverId) ==
  {i \in 1..Len(EventLog) : EventLog[i].type = "dnf" /\ EventLog[i].driverId = driverId}

\* the lap series of a driver
SeriesOf(driverId) ==
  {ProcessedLapData[d].laps :
     d \in {c \in 1..Len(ProcessedLapData) : ProcessedLapData[c].driverId = driverId}}

\* C15: the event log holds exactly one dnf event for every competitor whose
\* result status is neither "Finished" nor a lapped-finish code, also when the
\* competitor has no recorded laps, and none for any other competitor; the
\* event's time is the cumulative time of the competitor's final recorded lap.
C15_OneRetirementPerNotFinished ==
  IsBuilt =>
    \A r \in 1..Len(raceData.results) :
      LET result == raceData.results[r]
      IN  /\ Cardinality(DnfEventsOf(result.driverId)) =
               IF IsNotFinished(result) THEN 1 ELSE 0
          /\ \A i \in DnfEventsOf(result.driverId), laps \in SeriesOf(result.driverId) :
               Len(laps) > 0 =>
                 NEq(EventLog[i].timeInMs, laps[Len(laps)].cumulativeTimeInMs)

\* C16: in every competitor series produced by calculateDriverLapData,
\* cumulativeTimeInMs is strictly increasing from each lap entry to the next,
\* for every input the normalizer accepts.
C16_CumulativeTimeIncreases ==
  IsBuilt =>
    \A d \in 1..Len(ProcessedLapData) :
      \A n \in 1..(Len(ProcessedLapData[d].laps) - 1) :
        NLt(ProcessedLapData[d].laps[n].cumulativeTimeInMs,
            ProcessedLapData[d].laps[n + 1].cumulativeTimeInMs)

\* the mean of the samples with a positive time, 90000 when there is none
MeanOfValidSamples ==
  LET samples == allTimings(LapTimings)
      valid == {i \in 1..Len(samples) : NLt(Zero, samples[i].timeInMs)}
      RECURSIVE Total(_)
      Total(S) == IF S = {} THEN Zero
                  ELSE LET i == CHOOSE x \in S : TRUE
                       IN  NAdd(samples[i].timeInMs, Total(S \ {i}))
  IN  IF valid = {} THEN Rat(90000) ELSE NDiv(Total(valid), Rat(Cardinality(valid)))

\* C17: for every lap of every competitor, speedFactor equals the mean of the
\* positive samples (90000 when there is none) divided by the lap's time,
\* clamped into [0.5, 1.5]; so 0.5 <= speedFactor <= 1.5 always.
C17_SpeedFactorClamped ==
  IsBuilt =>
    \A d \in 1..Len(ProcessedLapData) :
      \A n \in 1..Len(ProcessedLapData[d].laps) :
        LET entry == ProcessedLapData[d].laps[n]
            ratio == NDiv(MeanOfValidSamples, entry.timeInMs)
        IN  /\ NLe(<<1, 2>>, entry.speedFactor)
            /\ NLe(entry.speedFactor, <<3, 2>>)
            /\ ~IsNaN(entry.timeInMs)
            /\ IF entry.timeInMs = Zero THEN entry.speedFactor = <<3, 2>>
               ELSE \/ NLe(ratio, <<1, 2>>) /\ entry.speedFactor = <<1, 2>>
                    \/ NLe(<<3, 2>>, ratio) /\ entry.speedFactor = <<3, 2>>
                    \/ entry.speedFactor = ratio

\* seconds with their fraction, "SS.mmm": digits around one point
IsSecondsShape(text) ==
  /\ Len(text) >= 3
  /\ IsDigit(text[1]) /\ IsDigit(text[Len(text)])
  /\ Cardinality({i \in 1..Len(text) : text[i] = "."}) = 1
  /\ \A i \in 1..Len(text) : IsDigit(text[i]) \/ text[i] = "."

\* the shapes "M:SS.mmm" and "SS.mmm"
IsLapTimeShape(text) ==
  LET parts == split(text, ":")
  IN  \/ Len(parts) = 1 /\ IsSecondsShape(text)
      \/ /\ Len(parts) = 2
         /\ Len(parts[1]) >= 1
         /\ \A i \in 1..Len(parts[1]) : IsDigit(parts[1][i])
         /\ IsSecondsShape(parts[2])

\* typeof value === "number", which NaN is too
IsNumber(value) == IsNaN(value) \/ value[2] > 0

\* the lap time texts of the race
TimeTexts ==
  UNION {{raceData.laps[k].Timings[i].time : i \in 1..Len(raceData.laps[k].Timings)} :
           k \in 1..Len(raceData.laps)}

\* C18: a lap time text that has neither the shape "M:SS.mmm" nor "SS.mmm"
\* ("bad", the empty text, a text with two colons) parses to an error outcome,
\* not to a number, and the normalization of the race's lap data then fails as
\* a whole: nothing is built from the remaining samples.
C18_MalformedTimeFails ==
  \A text \in TimeTexts :
    ~IsLapTimeShape(text) => ~IsNumber(lapTimeToMs(text)) /\ ~IsBuilt

(* -------------------------- timeline generator ------------------------ *)
RaceTimeline == raceTimeline[1]
IsGenerated == raceTimeline # <<>>

\* the final cumulative lap time of every competitor with a recorded lap
FinalTimes ==
  {ProcessedLapData[d].laps[Len(ProcessedLapData[d].laps)].cumulativeTimeInMs :
     d \in {c \in 1..Len(ProcessedLapData) : Len(ProcessedLapData[c].laps) > 0}}

\* C19: generateRaceTimeline produces one frame for each sample time
\* 0, I, 2I, ... up to totalDurationMs (I the frame interval), in strictly
\* increasing time order starting at 0, floor(totalDurationMs / I) + 1 frames
\* in all; totalDurationMs is the largest final cumulative lap time of the
\* competitors.
C19_OneFramePerSampleTime ==
  IsGenerated =>
    LET frames == RaceTimeline.frames
        total == RaceTimeline.totalDurationMs
        interval == routeFrameInterval(query)
    IN  /\ Len(frames) >= 1
        /\ frames[1].timeInMs = Zero
        /\ \A k \in 1..(Len(frames) - 1) :
             /\ NLt(frames[k].timeInMs, frames[k + 1].timeInMs)
             /\ NEq(frames[k + 1].timeInMs, NAdd(frames[k].timeInMs, interval))
        /\ NLe(frames[Len(frames)].timeInMs, total)
        /\ NLt(total, NAdd(frames[Len(frames)].timeInMs, interval))
        /\ NMul(Rat(Len(frames) - 1), interval) = frames[Len(frames)].timeInMs
        /\ IF FinalTimes = {} THEN total = Zero
           ELSE /\ total \in FinalTimes
                /\ \A time \in FinalTimes : NLe(time, total)

\* the cumulative times a driver's lap series records for lap number `lap`
CumulativeAt(driverId, lap) ==
  {entry.cumulativeTimeInMs : entry \in SeriesEntries(driverId, lap)}

\* Math.max(0, gap)
AtLeastZero(gap) == IF NLt(Zero, gap) THEN gap ELSE Zero

\* C20: in every frame gapToLeader is 0 for a competitor at position 1; for
\* any other competitor, located on lap L, it is max(0, C - T) with C the
\* competitor's cumulative time after lap L and T the cumulative race time
\* after lap L of the competitor who held position 1 at lap L, also when the
\* holder of position 1 differs from lap to lap.
C20_GapToLapLeader ==
  IsGenerated =>
    \A f \in 1..Len(RaceTimeline.frames) :
      \A s \in 1..Len(RaceTimeline.frames[f].drivers) :
        LET state == RaceTimeline.frames[f].drivers[s]
        IN  IF NEq(state.position, Rat(1)) THEN state.gapToLeader = Zero
            ELSE \A leader \in HoldersOf(state.lap, Rat(1)) :
                   \A C \in CumulativeAt(state.driverId, state.lap),
                      T \in CumulativeAt(leader, state.lap) :
                     state.gapToLeader = AtLeastZero(NSub(C, T))

\* C21: in every generated frame the competitor states are ordered with all
\* running (not retired) competitors first, in ascending position, and every
\* retired competitor after all running ones.
C21_RunningBeforeRetired ==
  IsGenerated =>
    \A f \in 1..Len(RaceTimeline.frames) :
      LET states == RaceTimeline.frames[f].drivers
      IN  \A i, j \in 1..Len(states) :
            i < j =>
              /\ ~(states[i].isDNF /\ ~states[j].isDNF)
              /\ (~states[i].isDNF /\ ~states[j].isDNF) =>
                   NLe(states[i].position, states[j].position)

\* the frames of the generated timeline an event is attached to
FramesOf(event) ==
  {f \in 1..Len(RaceTimeline.frames) :
     \E i \in 1..Len(RaceTimeline.frames[f].events) :
       RaceTimeline.frames[f].events[i] = event}

\* |a - b| <= width
IsWithin(a, b, width) == NLe(NSub(a, b), width) /\ NLe(NSub(b, a), width)

\* C22: for every frame interval and every event with
\* 0 <= timeInMs <= totalDurationMs, the event is attached to exactly one
\* frame of the generated timeline, and that frame's timeInMs is within half an
\* interval of the event's timeInMs.
C22_EventInExactlyOneFrame ==
  IsGenerated =>
    \A e \in 1..Len(RaceTimeline.events) :
      LET event == RaceTimeline.events[e]
          half == NMul(routeFrameInterval(query), <<1, 2>>)
      IN  (NLe(Zero, event.timeInMs) /\ NLe(event.timeInMs, RaceTimeline.totalDurationMs)) =>
            /\ Cardinality(FramesOf(event)) = 1
            /\ \A f \in FramesOf(event) :
                 IsWithin(RaceTimeline.frames[f].timeInMs, event.timeInMs, half)

(* ------------------------- timeline compression ----------------------- *)
IsCompressed == compressed # <<>>
Compressed == compressed[1].timeline
TargetFrameCount == compressed[1].targetFrameCount

\* list is original with some of its elements left out
RECURSIVE IsSubsequence(_, _)
IsSubsequence(list, original) ==
  IF list = <<>> THEN TRUE
  ELSE IF original = <<>> THEN FALSE
  ELSE IF Head(list) = Head(original) THEN IsSubsequence(Tail(list), Tail(original))
  ELSE IsSubsequence(list, Tail(original))

\* C23: when compressTimeline thins a timeline (the target is below the
\* number of frames), the result keeps the first frame, the last frame and
\* every frame whose timeInMs equals some event's timeInMs, and its frames are
\* a subsequence of the original frames: in the original order, each original
\* frame at most once.
C23_ThinnedKeepsKeyFrames ==
  (IsCompressed /\ TargetFrameCount < Len(RaceTimeline.frames)) =>
    LET original == RaceTimeline.frames
        kept == Compressed.frames
    IN  /\ Len(kept) >= 1
        /\ kept[1] = original[1]
        /\ kept[Len(kept)] = original[Len(original)]
        /\ \A k \in 1..Len(original) :
             (\E e \in 1..Len(RaceTimeline.events) :
                NEq(RaceTimeline.events[e].timeInMs, original[k].timeInMs)) =>
               \E i \in 1..Len(kept) : kept[i] = original[k]
        /\ IsSubsequence(kept, original)

\* C24: compressTimeline with a target that is not below the number of frames
\* returns a timeline identical to its input: the same frames in the same
\* order, the same events, totalDurationMs, drivers and metadata.
C24_WithinTargetIsIdentity ==
  (IsCompressed /\ TargetFrameCount >= Len(RaceTimeline.frames)) =>
    /\ Compressed.frames = RaceTimeline.frames
    /\ Compressed.events = RaceTimeline.events
    /\ Compressed.totalDurationMs = RaceTimeline.totalDurationMs
    /\ Compressed.drivers = RaceTimeline.drivers
    /\ Compressed.metadata = RaceTimeline.metadata

\* a timeline of several frames was compressed to a target it already meets
C24_Witness ==
  /\ IsCompressed
  /\ Len(RaceTimeline.frames) > 1
  /\ TargetFrameCount >= Len(RaceTimeline.frames)
  /\ Compressed = RaceTimeline

(* ------------------------------ playback ------------------------------ *)
\* C25: once isPlaying is false (after pause, restart or the stop at the end),
\* no animation step changes currentTimeMs or currentFrameIndex until play is
\* called again, however the state change interleaves with a refresh callback
\* that was already scheduled: a step that runs while the state is not playing
\* is a no-op.
C25_StepWhileStoppedIsNoOp ==
  [][(lastOp' = "animate" /\ ~playbackState.isPlaying) =>
       /\ playbackState'.currentTimeMs = playbackState.currentTimeMs
       /\ playbackState'.currentFrameIndex = playbackState.currentFrameIndex]_vars

\* The wall-clock time since the previous step of the present playing stretch,
\* 0 for the first step after play().
StretchDelta == IF sinceStep = <<>> THEN 0 ELSE sinceStep[1]

\* This step is a run of the refresh callback that updates the state.
IsStep == rafCallback # <<>> /\ lastOp' = "animate" /\ sinceStep' = <<0>>

\* C26: each animation step while playing advances the clock by exactly
\* wallDeltaMs * speed * 20 (stopping at the total duration), where wallDeltaMs
\* is the wall-clock time since the previous step of the same playing stretch
\* and speed is the value current at that step; the first step after every
\* play adds 0, so time that elapsed while paused never advances the clock.
C26_StepAdvancesByStretchDelta ==
  [][(IsStep /\ playbackState.isPlaying) =>
       playbackState'.currentTimeMs =
         MinOf(rafCallback[1].timeline.totalDurationMs,
               playbackState.currentTimeMs
                 + StretchDelta * playbackState.speed * PaceConstant)]_vars

(* ------------------------- frames of a timeline ----------------------- *)
\* the state of a competitor in frame f of the generated timeline
StateOf(f, driverId) ==
  LET states == RaceTimeline.frames[f].drivers
  IN  states[CHOOSE i \in 1..Len(states) : states[i].driverId = driverId]

\* the competitor has at least one recorded lap
HasLaps(driverId) ==
  \E d \in 1..Len(ProcessedLapData) :
    ProcessedLapData[d].driverId = driverId /\ Len(ProcessedLapData[d].laps) > 0

\* C27: for every competitor with at least one recorded lap and every two
\* consecutive frames of a generated timeline, the later frame's lap is at
\* least the earlier frame's lap and, when the laps are equal, its progress is
\* at least the earlier progress; progress is within [0, 100] in every frame.
C27_LapAndProgressNeverDecrease ==
  IsGenerated =>
    \A driverId \in {d \in DriverIds : HasLaps(d)} :
      /\ \A f \in 1..Len(RaceTimeline.frames) :
           /\ NLe(Zero, StateOf(f, driverId).progress)
           /\ NLe(StateOf(f, driverId).progress, Rat(100))
      /\ \A f \in 1..(Len(RaceTimeline.frames) - 1) :
           LET earlier == StateOf(f, driverId)
               later == StateOf(f + 1, driverId)
           IN  /\ NLe(earlier.lap, later.lap)
               /\ NEq(earlier.lap, later.lap) => NLe(earlier.progress, later.progress)

\* C28: a timeline request terminates with a finite frame sequence for every
\* frameInterval the route can pass to the generator: any non-zero integer
\* parsed from the query, negative ones included, or 1000 when the parameter
\* is missing, zero or not a number.
C28_RequestTerminates ==
  (frameLoop # <<>>) ~> (frameLoop # <<>> /\ frameLoop[1].done)

\* C29: no frame earlier than a competitor's retirement event's timeInMs marks
\* that competitor isDNF = true.
C29_NotRetiredBeforeRetirement ==
  (IsBuilt /\ IsGenerated) =>
    \A e \in 1..Len(EventLog) :
      EventLog[e].type = "dnf" =>
        \A f \in 1..Len(RaceTimeline.frames) :
          NLt(RaceTimeline.frames[f].timeInMs, EventLog[e].timeInMs) =>
            ~StateOf(f, EventLog[e].driverId).isDNF

(* ---------------------------- timeline fetch -------------------------- *)
\* C30: when the selected (season, round) changes while an earlier timeline
\* fetch is in flight, then after all fetches have completed the hook's
\* timeline is the response for the most recently selected (season, round),
\* whatever order the responses arrive in.
C30_TimelineOfLatestSelection ==
  (/\ inFlight = <<>>
   /\ props.season # "" /\ props.round # ""
   /\ hookState.error = <<>>
   /\ hookState.timeline # <<>>) =>
    hookState.timeline = <<props>>

====
